---- MODULE Spec2Model ----
(***************************************************************************)
(* A model of the core of ion-rust: the symbol-table aware reader          *)
(* (src/Reader.rs, src/symbol_table.rs), the raw binary writer with        *)
(* deferred length prefixes (src/lazy/encoder/binary) and the blocking     *)
(* adapter over the non-blocking parser (src/blocking_lazy_reader.rs).     *)
(***************************************************************************)
EXTENDS Integers, Sequences, FiniteSets, TLC

VARIABLES
    \* ---- Reader (src/Reader.rs) ----
    symbol_table,       \* Reader.symbol_table: [symbols_by_id, ids_by_text]
    returned,           \* what the last call of Reader::next gave back
    last_system_item,   \* the last IVM / symbol table struct consumed by that call
    table_before,       \* the symbol table just before last_system_item was processed
    system_items_seen,  \* how many IVMs / symbol table structs that call consumed
    \* ---- LazyRawBinaryWriter_1_0 (src/lazy/encoder/binary/mod.rs) ----
    output,               \* the bytes the sink has received
    arena_gen,            \* how many times the bump allocator has been reset
    encoding_buffer_ptr,  \* None, or the arena generation the buffer was allocated in
    top_buffer,           \* the bytes at the address encoding_buffer_ptr holds
    containers,           \* the open container writers, outermost first
    result,               \* what the last writer call returned
    last_op,              \* the last writer call
    values_written,       \* how many values were handed to the writer so far
    written,              \* the top-level values written without an error, in order
    open_values,          \* for each open container, its field name and children so far
    due_output,           \* the version marker and the bytes of each top-level value written
    \* ---- BlockingLazyRawReader (src/blocking_lazy_reader.rs) ----
    stream_items,         \* the sizes in bytes of the items of the whole stream
    source,               \* how many bytes the byte source still holds
    reader_bytes,         \* how many bytes read_from has handed to the parser
    reader_complete,      \* the parser was told the stream is complete
    offset,               \* BlockingLazyRawReader.offset
    expected_read_size,   \* BlockingLazyRawReader.expected_read_size
    next_result,          \* what the last call of next() returned
    first_parse,          \* what the parser said when that call began
    source_before,        \* the bytes the source held when that call began
    parse_calls,          \* how many times that call ran the parser (R::next)
    \* ---- VarUInt codecs (src/binary/var_uint.rs, src/ion_1_1/alt.rs) ----
    var_uint_value,       \* the u64 handed to the encoders
    v1_0_sink,            \* the bytes VarUInt::write_u64 wrote
    v1_0_size,            \* the size VarUInt::write_u64 returned
    v1_0_source,          \* the bytes VarUInt::read was given
    v1_0_read,            \* what VarUInt::read returned
    v1_1_sink,            \* the bytes encode_var_uint wrote
    v1_1_size,            \* the size encode_var_uint returned
    v1_1_source,          \* the bytes decode_var_uint was given
    v1_1_decoded,         \* what decode_var_uint returned
    \* ---- ElementStreamReader (src/element/element_stream_reader.rs) ----
    element,              \* ElementStreamReader.element (None once taken)
    current_iter,         \* the children current_iter has yet to yield
    iter_stack,           \* ElementStreamReader.iter_stack
    current_value,        \* ElementStreamReader.current_value
    is_eof,               \* ElementStreamReader.is_eof
    parents,              \* ElementStreamReader.parents
    input,                \* the element the reader was built over
    element_op,           \* the last call made on the reader
    element_result,       \* what that call returned
    entered,              \* the ids of the containers stepped into, outermost first
    exited,               \* the ids of the containers step_out() was called in, in order
    skipped,              \* how many children the last step_out() found unread
    depth_before,         \* depth() when the last call began
    expected_type,        \* the type the last read_*() call asked for
    \* ---- Version markers (src/reader.rs, src/lazy/binary/raw/v1_1/reader.rs) ----
    header,               \* the first four bytes of the input
    build_result,         \* what ReaderBuilder::build(input) returned
    raw_1_1_result,       \* what LazyRawBinaryReader_1_1::next() returned on the input
    \* ---- ApplicationWriter (src/lazy/encoder/application_writer.rs) ----
    app_symbol_table,        \* ApplicationWriter.symbol_table
    num_symbols_last_flush,  \* ApplicationWriter.num_symbols_last_flush
    directive_writer,        \* the raw writer of the encoding directives
    data_writer,             \* the raw writer of the user data
    app_output,              \* what the sink has received, item by item
    app_op,                  \* the last call made on the application writer
    app_result,              \* what that call returned
    new_texts,               \* the texts interned since the last flush, in order
    app_writes               \* how many values the application writer was handed

readerVars == <<symbol_table, returned, last_system_item, table_before, system_items_seen>>

writerVars == <<output, arena_gen, encoding_buffer_ptr, top_buffer, containers, result,
                last_op, values_written, written, open_values, due_output>>

blockingVars == <<stream_items, source, reader_bytes, reader_complete, offset,
                  expected_read_size, next_result, first_parse, source_before,
                  parse_calls>>

codecVars == <<var_uint_value, v1_0_sink, v1_0_size, v1_0_source, v1_0_read,
               v1_1_sink, v1_1_size, v1_1_source, v1_1_decoded>>

elementVars == <<element, current_iter, iter_stack, current_value, is_eof, parents,
                 input, element_op, element_result, entered, exited, skipped,
                 depth_before, expected_type>>

versionVars == <<header, build_result, raw_1_1_result>>

appVars == <<app_symbol_table, num_symbols_last_flush, directive_writer, data_writer,
             app_output, app_op, app_result, new_texts, app_writes>>

vars == <<symbol_table, returned, last_system_item, table_before, system_items_seen,
          output, arena_gen, encoding_buffer_ptr, top_buffer, containers, result,
          last_op, values_written, written, open_values, due_output,
          stream_items, source, reader_bytes, reader_complete, offset,
          expected_read_size, next_result, first_parse, source_before, parse_calls,
          var_uint_value, v1_0_sink, v1_0_size, v1_0_source, v1_0_read,
          v1_1_sink, v1_1_size, v1_1_source, v1_1_decoded,
          element, current_iter, iter_stack, current_value, is_eof, parents,
          input, element_op, element_result, entered, exited, skipped,
          depth_before, expected_type, header, build_result, raw_1_1_result,
          app_symbol_table, num_symbols_last_flush, directive_writer, data_writer,
          app_output, app_op, app_result, new_texts, app_writes>>

\* ---------------------------------------------------------------------
\* Bounds
\* ---------------------------------------------------------------------
\* The number of raw stream items one call of Reader::next may look at.
MaxAhead == 2
\* The number of values (scalars and containers) handed to one writer.
MaxValues == 3
\* The number of containers open at the same time.
MaxDepth == 2
\* The number of flushes of one writer.
MaxFlushes == 2
\* The number of items in the stream the blocking reader reads, the size of
\* an item in bytes, and the largest configured read size.
MaxItems == 3
MaxItemSize == 3
MaxReadSize == 3

\* ---------------------------------------------------------------------
\* Symbol table (src/symbol_table.rs, src/constants.rs)
\* ---------------------------------------------------------------------
SYSTEM_SYMBOLS ==
    << "$0", "$ion", "$ion_1_0", "$ion_symbol_table", "name", "version",
       "imports", "symbols", "max_id", "$ion_shared_symbol_table" >>

Range(s) == { s[i] : i \in 1..Len(s) }

\* HashMap::insert
MapInsert(m, k, v) == [ x \in (DOMAIN m) \cup {k} |-> IF x = k THEN v ELSE m[x] ]

EmptyMap == [ x \in {} |-> 0 ]

EmptyTable == [symbols_by_id |-> <<>>, ids_by_text |-> EmptyMap]

\* SymbolTable::initialize: push every system symbol, map its text to its
\* index in SYSTEM_SYMBOLS.
RECURSIVE initializeFrom(_, _)
initializeFrom(t, i) ==
    IF i > Len(SYSTEM_SYMBOLS) THEN t
    ELSE initializeFrom(
            [symbols_by_id |-> Append(t.symbols_by_id, SYSTEM_SYMBOLS[i]),
             ids_by_text   |-> MapInsert(t.ids_by_text, SYSTEM_SYMBOLS[i], i - 1)],
            i + 1)

initialize(t) == initializeFrom(t, 1)

\* SymbolTable::new
NewSymbolTable == initialize(EmptyTable)

\* A reset that forgets to clear the two collections.
reset_noclear(t) == initialize(t)

\* SymbolTable::reset: clear both collections, then initialize(); the
\* result is the table SymbolTable::new builds, whatever t held.
reset(t) == NewSymbolTable

\* An intern that adds the text without looking it up.
intern_append(t, text) ==
    [symbols_by_id |-> Append(t.symbols_by_id, text),
     ids_by_text   |-> MapInsert(t.ids_by_text, text, Len(t.symbols_by_id))]

\* SymbolTable::intern: the new table (the returned ID is internId).
intern(t, text) ==
    IF text \in DOMAIN t.ids_by_text THEN t
    ELSE [symbols_by_id |-> Append(t.symbols_by_id, text),
          ids_by_text   |-> MapInsert(t.ids_by_text, text, Len(t.symbols_by_id))]

internId(t, text) ==
    IF text \in DOMAIN t.ids_by_text THEN t.ids_by_text[text]
    ELSE Len(t.symbols_by_id)

\* SymbolTable::len
TableLen(t) == Len(t.symbols_by_id)

\* ---------------------------------------------------------------------
\* The raw stream the cursor walks over
\* ---------------------------------------------------------------------
\* Elements of a symbols list: a string with its text, or a value that is
\* not a string.
Str(text) == [ty |-> "String", null |-> FALSE, text |-> text]
NonString == [ty |-> "Int", null |-> FALSE, text |-> ""]

SymbolLists ==
    { <<Str("a")>>, <<Str("b"), Str("b")>>, <<Str("a"), NonString, Str("d")>> }

\* Fields of a struct: (field id, type, null?) and the payload.
ImportsField == [id |-> 6, ty |-> "Symbol", null |-> FALSE, sid |-> 3, items |-> <<>>]
SymbolsField(l) == [id |-> 7, ty |-> "List", null |-> FALSE, sid |-> 0, items |-> l]
NameField == [id |-> 4, ty |-> "String", null |-> FALSE, sid |-> 0, items |-> <<>>]

LstFields == {ImportsField} \cup { SymbolsField(l) : l \in SymbolLists }

\* Structs of up to two fields: imports before or after a symbols list,
\* imports twice, and one struct with two symbols lists.
FieldSeqs ==
    {<<>>, <<NameField>>} \cup { <<f>> : f \in LstFields }
        \cup { <<ImportsField, f>> : f \in LstFields }
        \cup { <<f, ImportsField>> : f \in LstFields }
        \cup { <<SymbolsField(<<Str("a")>>), SymbolsField(<<Str("b"), Str("b")>>)>> }

IVM == [kind |-> "ivm", ty |-> "None", null |-> FALSE, annotations |-> <<>>, fields |-> <<>>]

Value(ty, null, annotations, fields) ==
    [kind |-> "value", ty |-> ty, null |-> null, annotations |-> annotations,
     fields |-> fields]

\* $ion_symbol_table::{ ... }
Lst(fields) == Value("Struct", FALSE, <<3>>, fields)

RawItems ==
    {IVM}
    \cup { Lst(fs) : fs \in FieldSeqs }
    \cup { Value("Int", FALSE, <<>>, <<>>),
           Value("Struct", FALSE, <<4, 3>>, <<>>),
           Value("Struct", TRUE, <<3>>, <<>>) }

RECURSIVE SeqsUpTo(_, _)
SeqsUpTo(S, n) ==
    IF n = 0 THEN {<<>>}
    ELSE LET shorter == SeqsUpTo(S, n - 1)
         IN  shorter \cup { Append(s, x) : s \in { q \in shorter : Len(q) = n - 1 }, x \in S }

RawStreams == SeqsUpTo(RawItems, MaxAhead)

\* ---------------------------------------------------------------------
\* Reader (src/Reader.rs)
\* ---------------------------------------------------------------------
\* `while let Some(Value(IonType::String, false)) = self.cursor.next()?`:
\* the texts of the strings up to the first entry that is not a string.
RECURSIVE LeadingStrings(_, _)
LeadingStrings(items, i) ==
    IF i > Len(items) THEN <<>>
    ELSE IF items[i].ty = "String" /\ ~items[i].null
         THEN <<items[i].text>> \o LeadingStrings(items, i + 1)
         ELSE <<>>

\* `for new_symbol in new_symbols.drain(..) { self.symbol_table.intern(new_symbol) }`
RECURSIVE InternAll(_, _, _)
InternAll(t, texts, i) ==
    IF i > Len(texts) THEN t ELSE InternAll(intern(t, texts[i]), texts, i + 1)

\* Reader::read_symbol_table, from field i on.  `panicked` stands for the
\* unimplemented!() arms.
RECURSIVE read_symbol_table_from(_, _, _, _)
read_symbol_table_from(t, fields, i, is_append) ==
    IF i > Len(fields) THEN [table |-> t, panicked |-> FALSE]
    ELSE LET f == fields[i] IN
         IF f.id = 6 /\ f.ty = "Symbol" /\ ~f.null
         THEN IF f.sid # 3 THEN [table |-> t, panicked |-> TRUE]
              ELSE \* is_append = true; nothing to reset, nothing to intern
                   read_symbol_table_from(t, fields, i + 1, TRUE)
         ELSE IF f.id = 7 /\ f.ty = "List" /\ ~f.null
         THEN LET new_symbols == LeadingStrings(f.items, 1)
                  t1 == IF ~is_append THEN reset(t) ELSE t
              IN  read_symbol_table_from(InternAll(t1, new_symbols, 1), fields, i + 1,
                                         is_append)
         ELSE [table |-> t, panicked |-> TRUE]

read_symbol_table(t, fields) == read_symbol_table_from(t, fields, 1, FALSE)

IsSymbolTableAnnotated_any(annotations) ==
    \E i \in 1..Len(annotations) : annotations[i] = 3

\* `if let [3, ..] = self.cursor.annotation_ids()`
IsSymbolTableAnnotated(annotations) == Len(annotations) >= 1 /\ annotations[1] = 3

NoItem == [kind |-> "none", ty |-> "None", null |-> FALSE, annotations |-> <<>>, fields |-> <<>>]
Panic  == [kind |-> "panic", ty |-> "None", null |-> FALSE, annotations |-> <<>>, fields |-> <<>>]

\* What one turn of the loop in Reader::next does with a version marker.
OnVersionMarker_return(st, item) ==
    [st EXCEPT !.table = reset(st.table), !.done = TRUE, !.returned = item,
               !.last = item, !.before = st.table, !.seen = st.seen + 1]

OnVersionMarker(st, item) ==
    [st EXCEPT !.table = reset(st.table), !.last = item, !.before = st.table,
               !.seen = st.seen + 1]

\* ... with a non-null struct.
OnStruct(st, item) ==
    IF IsSymbolTableAnnotated(item.annotations)
    THEN LET r == read_symbol_table(st.table, item.fields)
         IN  IF r.panicked
             THEN [st EXCEPT !.table = r.table, !.done = TRUE, !.returned = Panic,
                             !.last = item, !.before = st.table]
             ELSE [st EXCEPT !.table = r.table, !.last = item, !.before = st.table,
                             !.seen = st.seen + 1]
    ELSE [st EXCEPT !.done = TRUE, !.returned = item]

\* Reader::next: the loop over the items the cursor yields; the cursor
\* yields None when `ahead` is used up.
RECURSIVE NextLoop(_, _, _)
NextLoop(st, ahead, i) ==
    IF st.done THEN [st EXCEPT !.consumed = i - 1]
    ELSE IF i > Len(ahead)
    THEN [st EXCEPT !.done = TRUE, !.returned = NoItem, !.consumed = i - 1]
    ELSE LET item == ahead[i] IN
         IF item.kind = "ivm" THEN NextLoop(OnVersionMarker(st, item), ahead, i + 1)
         ELSE IF item.ty = "Struct" /\ ~item.null THEN NextLoop(OnStruct(st, item), ahead, i + 1)
         ELSE NextLoop([st EXCEPT !.done = TRUE, !.returned = item], ahead, i + 1)

ReaderInit ==
    /\ symbol_table = NewSymbolTable
    /\ returned = NoItem
    /\ last_system_item = NoItem
    /\ table_before = NewSymbolTable
    /\ system_items_seen = 0

\* One call of Reader::next over the next items of the stream.
ReaderNext ==
    /\ returned # Panic
    /\ \E ahead \in RawStreams :
         LET st0 == [table |-> symbol_table, done |-> FALSE, returned |-> NoItem,
                     last |-> NoItem, before |-> symbol_table, consumed |-> 0,
                     seen |-> 0]
         IN  \E r \in {NextLoop(st0, ahead, 1)} :
                 /\ r.consumed = Len(ahead)
                 /\ symbol_table' = r.table
                 /\ returned' = r.returned
                 /\ last_system_item' = r.last
                 /\ table_before' = r.before
                 /\ system_items_seen' = r.seen
    /\ UNCHANGED <<writerVars, blockingVars, codecVars, elementVars, versionVars, appVars>>


\* ---------------------------------------------------------------------
\* 64-bit unsigned words (u64, and usize on a 64-bit target)
\* ---------------------------------------------------------------------
\* A word is the sequence of its bits, lowest bit first.
BITS_PER_U64 == 64

BitIndex == 1..BITS_PER_U64

\* `n as u64` for a length or an ID n below 2^31
U64(n) == [i \in BitIndex |-> IF i <= 31 THEN (n \div (2 ^ (i - 1))) % 2 ELSE 0]

\* u64::MAX
U64_MAX == [i \in BitIndex |-> 1]

\* The number held by the bits from..to of a word (at most 31 bits).
RECURSIVE BitsToNat(_, _, _)
BitsToNat(w, from, to) ==
    IF from > to THEN 0 ELSE w[from] + 2 * BitsToNat(w, from + 1, to)

\* `w as usize` read back as a number, for a word below 2^31
ToNat(w) == BitsToNat(w, 1, 31)

\* w == 0
IsZero(w) == \A i \in BitIndex : w[i] = 0

\* w < 2^k
Below(w, k) == \A i \in BitIndex : i > k => w[i] = 0

\* w >> k, w << k (bits shifted out are lost), w | v, w & v
Shr(w, k) == [i \in BitIndex |-> IF i + k <= BITS_PER_U64 THEN w[i + k] ELSE 0]
Shl(w, k) == [i \in BitIndex |-> IF i - k >= 1 THEN w[i - k] ELSE 0]
BitOr(w, v) == [i \in BitIndex |-> IF w[i] = 1 \/ v[i] = 1 THEN 1 ELSE 0]
BitAnd(w, v) == [i \in BitIndex |-> IF w[i] = 1 /\ v[i] = 1 THEN 1 ELSE 0]

\* w + 1, wrapping
Inc(w) ==
    LET zeros == { i \in BitIndex : w[i] = 0 }
    IN  IF zeros = {} THEN U64(0)
        ELSE LET k == CHOOSE i \in zeros : \A j \in zeros : i <= j
             IN  [i \in BitIndex |-> IF i < k THEN 0 ELSE IF i = k THEN 1 ELSE w[i]]

\* u64::leading_zeros
leading_zeros(w) ==
    LET ones == { i \in BitIndex : w[i] = 1 }
    IN  IF ones = {} THEN BITS_PER_U64
        ELSE BITS_PER_U64 - (CHOOSE i \in ones : \A j \in ones : j <= i)

\* u8::trailing_zeros
RECURSIVE trailing_zeros(_)
trailing_zeros(byte) ==
    IF byte = 0 THEN 8 ELSE IF byte % 2 = 1 THEN 0 ELSE 1 + trailing_zeros(byte \div 2)

\* u64::to_le_bytes, and read_u64::<LittleEndian> over eight bytes
to_le_bytes(w) == [k \in 1..8 |-> BitsToNat(w, 8 * (k - 1) + 1, 8 * k)]
from_le_bytes(bytes) ==
    [i \in BitIndex |-> (bytes[((i - 1) \div 8) + 1] \div (2 ^ ((i - 1) % 8))) % 2]

\* The words 2^k and 2^k - 1, and a word of alternating bits.
PowerOfTwo(k) == [i \in BitIndex |-> IF i = k + 1 THEN 1 ELSE 0]
LowOnes(k) == [i \in BitIndex |-> IF i <= k THEN 1 ELSE 0]
Alternating(k) == [i \in BitIndex |-> IF i <= k /\ i % 2 = k % 2 THEN 1 ELSE 0]

\* ---------------------------------------------------------------------
\* VarUInt, Ion 1.0 (src/binary/var_uint.rs)
\* ---------------------------------------------------------------------
BITS_PER_ENCODED_BYTE == 7
LOWER_7_BITMASK == 127
HIGHEST_BIT_VALUE == 128
VAR_UINT_BUFFER_SIZE == 10
\* (STORAGE_SIZE_IN_BITS + BITS_PER_ENCODED_BYTE - 1) / BITS_PER_ENCODED_BYTE
\* with a 64-bit usize
MAX_ENCODED_SIZE_IN_BYTES == 10

\* `magnitude as u8 & LOWER_7_BITMASK` and `magnitude >>= BITS_PER_ENCODED_BYTE`
Low7(magnitude) == BitsToNat(magnitude, 1, BITS_PER_ENCODED_BYTE)
Shr7(magnitude) == Shr(magnitude, BITS_PER_ENCODED_BYTE)

\* The loop of VarUInt::write_u64: fills the scratch buffer from its last byte
\* to the left and gives back the bytes from first_byte on.
RECURSIVE write_u64_loop(_, _, _)
write_u64_loop(buffer, first_byte, magnitude) ==
    IF first_byte = 0 THEN buffer
    ELSE LET pos    == first_byte           \* 1-based index of buffer[first_byte - 1]
             seeded == IF pos = VAR_UINT_BUFFER_SIZE THEN HIGHEST_BIT_VALUE ELSE 0
             byte   == seeded + Low7(magnitude)
             rest   == Shr7(magnitude)
         IN  IF IsZero(rest) THEN <<byte>> \o buffer
             ELSE write_u64_loop(<<byte>> \o buffer, first_byte - 1, rest)

\* A write_u64 that leaves the end flag of the last byte clear.
write_u64_noflag(magnitude) ==
    IF IsZero(magnitude) THEN <<0>>
    ELSE LET bytes == write_u64_loop(<<>>, VAR_UINT_BUFFER_SIZE, magnitude)
         IN  [bytes EXCEPT ![Len(bytes)] = @ % HIGHEST_BIT_VALUE]

\* VarUInt::write_u64: the bytes written to the sink; the size returned is
\* their number.
write_u64(magnitude) ==
    IF IsZero(magnitude) THEN <<HIGHEST_BIT_VALUE>>
    ELSE write_u64_loop(<<>>, VAR_UINT_BUFFER_SIZE, magnitude)

\* read_next_byte_while(byte_processor) in VarUInt::read, over the bytes
\* of `data` from index `from` on: the magnitude, the number of bytes consumed,
\* overflow_risk, and whether a byte with the highest bit set ended the loop
\* (if not, the data source ran out).
RECURSIVE var_uint_read_from(_, _, _, _, _)
var_uint_read_from(data, from, magnitude, size, overflow_risk) ==
    IF from > Len(data)
    THEN [ended |-> FALSE, value |-> magnitude, size_in_bytes |-> size,
          overflow_risk |-> overflow_risk]
    ELSE LET byte == data[from]
             risk == overflow_risk \/ (size = 0 /\ byte > 1)
             m    == BitOr(Shl(magnitude, 7), U64(byte % (LOWER_7_BITMASK + 1)))
         IN  IF byte < HIGHEST_BIT_VALUE
             THEN var_uint_read_from(data, from + 1, m, size + 1, risk)
             ELSE [ended |-> TRUE, value |-> m, size_in_bytes |-> size + 1,
                   overflow_risk |-> risk]

\* A read that only rejects encodings of more than MAX_ENCODED_SIZE_IN_BYTES.
var_uint_read_sizeonly(data, from) ==
    LET r == var_uint_read_from(data, from, U64(0), 0, FALSE)
    IN  [ok |-> r.ended /\ ~(r.size_in_bytes > MAX_ENCODED_SIZE_IN_BYTES),
         value |-> r.value, size_in_bytes |-> r.size_in_bytes]

\* VarUInt::read: value and size_in_bytes, or an error.
var_uint_read(data, from) ==
    LET r == var_uint_read_from(data, from, U64(0), 0, FALSE)
    IN  [ok |-> /\ r.ended
                /\ ~ \/ r.size_in_bytes > MAX_ENCODED_SIZE_IN_BYTES
                     \/ (r.size_in_bytes = MAX_ENCODED_SIZE_IN_BYTES /\ r.overflow_risk),
         value |-> r.value, size_in_bytes |-> r.size_in_bytes]

\* ---------------------------------------------------------------------
\* VarUInt, Ion 1.1 (src/ion_1_1/alt.rs)
\* ---------------------------------------------------------------------
\* A bytes-needed table that rounds down and adds one.
BYTES_NEEDED_CACHE_floor(leading) ==
    IF leading = BITS_PER_U64 THEN 1
    ELSE ((BITS_PER_U64 - leading) \div BITS_PER_ENCODED_BYTE) + 1

\* init_bytes_needed_cache: the entry for a number of leading zeros.
BYTES_NEEDED_CACHE(leading) ==
    IF leading = BITS_PER_U64 THEN 1
    ELSE ((BITS_PER_U64 - leading) + BITS_PER_ENCODED_BYTE - 1) \div BITS_PER_ENCODED_BYTE

\* encode_var_uint: the bytes written to `output` and the size returned.
encode_var_uint(value) ==
    IF Below(value, 7)
    THEN [bytes |-> << ((ToNat(value) * 2) % 256) + 1 >>, size |-> 1]
    ELSE IF Below(value, 14)
    THEN LET n == ((ToNat(value) * 4) % 65536) + 2
         IN  [bytes |-> << n % 256, n \div 256 >>, size |-> 2]
    ELSE LET num_encoded_bytes == BYTES_NEEDED_CACHE(leading_zeros(value)) IN
         IF num_encoded_bytes <= 8
         THEN LET flag_bits     == Shl(U64(1), num_encoded_bytes - 1)
                  encoded_value == BitOr(Shl(value, num_encoded_bytes), flag_bits)
              IN  [bytes |-> SubSeq(to_le_bytes(encoded_value), 1, num_encoded_bytes),
                   size  |-> num_encoded_bytes]
         ELSE IF num_encoded_bytes = 9
         THEN LET encoded_value == Inc(Shl(value, 1))
              IN  [bytes |-> <<0>> \o to_le_bytes(encoded_value), size |-> 9]
         ELSE LET second_byte         == ((BitsToNat(value, 1, 6) * 4) % 256) + 2
                  remaining_magnitude == Shr(value, 6)
              IN  [bytes |-> <<0, second_byte>> \o to_le_bytes(remaining_magnitude),
                   size  |-> 10]

\* The temporary buffer of decode_var_uint: inputs shorter than 10 bytes are
\* copied into 10 zero bytes.
PadTo10(bytes) ==
    IF Len(bytes) >= 10 THEN bytes
    ELSE [i \in 1..10 |-> IF i <= Len(bytes) THEN bytes[i] ELSE 0]

DecodingError == [ok |-> FALSE, size |-> 0, value |-> U64(0)]

\* A decode_var_uint that does not mask the bytes that follow the encoding.
decode_var_uint_nomask(encoded) ==
    LET bytes == PadTo10(encoded)
        b1 == bytes[1]
        b2 == bytes[2]
    IN  IF b1 = 0 /\ b2 % 4 = 0 THEN DecodingError
        ELSE IF b1 = 0 /\ b2 % 4 = 2
        THEN LET remaining_magnitude == from_le_bytes(SubSeq(bytes, 3, 10))
             IN  IF ~Below(remaining_magnitude, 58) THEN DecodingError
                 ELSE [ok |-> TRUE, size |-> 10,
                       value |-> BitOr(Shl(remaining_magnitude, 6), U64(b2 \div 4))]
        ELSE IF b1 = 0
        THEN [ok |-> TRUE, size |-> 9,
              value |-> Shr(from_le_bytes(SubSeq(bytes, 2, 9)), 1)]
        ELSE LET num_encoded_bytes == trailing_zeros(b1) + 1
                 encoded_value     == from_le_bytes(SubSeq(bytes, 1, 8))
             IN  [ok |-> TRUE, size |-> num_encoded_bytes,
                  value |-> Shr(encoded_value, num_encoded_bytes)]

\* decode_var_uint: (size, value) or a decoding error.
decode_var_uint(encoded) ==
    LET bytes == PadTo10(encoded)
        b1 == bytes[1]
        b2 == bytes[2]
    IN  IF b1 = 0 /\ b2 % 4 = 0 THEN DecodingError
        ELSE IF b1 = 0 /\ b2 % 4 = 2
        THEN LET low_six             == b2 \div 4
                 remaining_magnitude == from_le_bytes(SubSeq(bytes, 3, 10))
             IN  IF ~Below(remaining_magnitude, 58) THEN DecodingError
                 ELSE [ok |-> TRUE, size |-> 10,
                       value |-> BitOr(Shl(remaining_magnitude, 6), U64(low_six))]
        ELSE IF b1 = 0
        THEN [ok |-> TRUE, size |-> 9,
              value |-> Shr(from_le_bytes(SubSeq(bytes, 2, 9)), 1)]
        ELSE LET num_encoded_bytes == trailing_zeros(b1) + 1
                 num_encoded_bits  == 8 * num_encoded_bytes
                 mask              == IF num_encoded_bits >= BITS_PER_U64 THEN U64_MAX
                                      ELSE LowOnes(num_encoded_bits)
                 encoded_value     == from_le_bytes(SubSeq(bytes, 1, 8))
             IN  [ok |-> TRUE, size |-> num_encoded_bytes,
                  value |-> Shr(BitAnd(encoded_value, mask), num_encoded_bytes)]

\* ---------------------------------------------------------------------
\* The VarUInt codecs at work: a value is written and read back
\* ---------------------------------------------------------------------
\* The values tried: 2^k, 2^k - 1 and words of alternating bits, for every
\* width up to 64 bits.
U64Inputs ==
    { PowerOfTwo(k) : k \in 0..(BITS_PER_U64 - 1) }
        \cup { LowOnes(k) : k \in 0..BITS_PER_U64 }
        \cup { Alternating(k) : k \in 56..BITS_PER_U64 }

\* The number 0 spelled in n bytes: n - 1 empty groups, then the end flag.
OverlongZero(n) == [i \in 1..n |-> IF i = n THEN HIGHEST_BIT_VALUE ELSE 0]

\* Bytes a data source may hold that no writer of this library produced:
\* 9 to 11 bytes with the end flag on the last one.
ForeignVarUInts ==
    { [i \in 1..n |-> IF i = 1 THEN first
                      ELSE IF i = n THEN HIGHEST_BIT_VALUE + last
                      ELSE middle] :
        n \in 9..11, first \in {0, 1, 2, 127}, middle \in {127}, last \in {0} }
        \cup { OverlongZero(n) : n \in 9..11 }

\* The bytes that follow an encoded VarUInt in a stream.
StreamTails == { <<>>, [i \in 1..10 |-> 255] }

NotRead == [ok |-> FALSE, value |-> U64(0), size_in_bytes |-> 0]
NotDecoded == [ok |-> FALSE, size |-> 0, value |-> U64(0)]

CodecIdle ==
    /\ var_uint_value = U64(0)
    /\ v1_0_sink = <<>> /\ v1_0_size = 0 /\ v1_0_source = <<>> /\ v1_0_read = NotRead
    /\ v1_1_sink = <<>> /\ v1_1_size = 0 /\ v1_1_source = <<>> /\ v1_1_decoded = NotDecoded

CodecInit ==
    /\ var_uint_value \in U64Inputs
    /\ v1_0_sink = <<>> /\ v1_0_size = 0 /\ v1_0_source = <<>> /\ v1_0_read = NotRead
    /\ v1_1_sink = <<>> /\ v1_1_size = 0 /\ v1_1_source = <<>> /\ v1_1_decoded = NotDecoded

\* VarUInt::write_u64(sink, value)
VarUIntWrite ==
    /\ v1_0_sink = <<>>
    /\ v1_0_sink' = write_u64(var_uint_value)
    /\ v1_0_size' = Len(v1_0_sink')
    /\ UNCHANGED <<var_uint_value, v1_0_source, v1_0_read,
                   v1_1_sink, v1_1_size, v1_1_source, v1_1_decoded>>
    /\ UNCHANGED <<readerVars, writerVars, blockingVars, elementVars, versionVars, appVars>>

\* VarUInt::read over a data source that holds what was written, or bytes
\* from elsewhere.
VarUIntRead ==
    /\ v1_0_source = <<>>
    /\ \E data \in ({v1_0_sink} \cup ForeignVarUInts) \ {<<>>} :
         /\ v1_0_source' = data
         /\ v1_0_read' = var_uint_read(data, 1)
    /\ UNCHANGED <<var_uint_value, v1_0_sink, v1_0_size,
                   v1_1_sink, v1_1_size, v1_1_source, v1_1_decoded>>
    /\ UNCHANGED <<readerVars, writerVars, blockingVars, elementVars, versionVars, appVars>>

\* encode_var_uint(output, value)
EncodeVarUInt ==
    /\ v1_1_sink = <<>>
    /\ LET e == encode_var_uint(var_uint_value)
       IN  /\ v1_1_sink' = e.bytes
           /\ v1_1_size' = e.size
    /\ UNCHANGED <<var_uint_value, v1_0_sink, v1_0_size, v1_0_source, v1_0_read,
                   v1_1_source, v1_1_decoded>>
    /\ UNCHANGED <<readerVars, writerVars, blockingVars, elementVars, versionVars, appVars>>

\* decode_var_uint over the encoded bytes and whatever follows them in the
\* stream.
DecodeVarUInt ==
    /\ v1_1_sink # <<>> /\ v1_1_source = <<>>
    /\ \E tail \in StreamTails :
         /\ v1_1_source' = v1_1_sink \o tail
         /\ v1_1_decoded' = decode_var_uint(v1_1_source')
    /\ UNCHANGED <<var_uint_value, v1_0_sink, v1_0_size, v1_0_source, v1_0_read,
                   v1_1_sink, v1_1_size>>
    /\ UNCHANGED <<readerVars, writerVars, blockingVars, elementVars, versionVars, appVars>>

\* ---------------------------------------------------------------------
\* Scalar encodings (src/lazy/encoder/binary/value_writer.rs)
\* ---------------------------------------------------------------------
MAX_INLINE_LENGTH == 13

\* The big-endian magnitude bytes uint::encode_u64 / DecodedUInt::write_u64
\* produce: none for zero.
RECURSIVE MagnitudeBytes(_)
MagnitudeBytes(m) ==
    IF m = 0 THEN <<>> ELSE MagnitudeBytes(m \div 256) \o <<m % 256>>

Repeat(byte, n) == [i \in 1..n |-> byte]

StringLengths == {11, 12, 126}

IntValue(v) == [kind |-> "int", v |-> v, len |-> 0]
StringValue(n) == [kind |-> "string", v |-> 0, len |-> n]
SymbolIdValue(sid) == [kind |-> "symbol_id", v |-> sid, len |-> 0]
SymbolTextValue == [kind |-> "symbol_text", v |-> 0, len |-> 0]

ScalarValues ==
    {IntValue(1), SymbolIdValue(4), SymbolTextValue}
        \cup { StringValue(n) : n \in StringLengths }

\* BinaryValueWriter_1_0::write_i64, for value >= 0
write_i64(value) ==
    LET bytes_to_write == MagnitudeBytes(value)
    IN  <<32 + Len(bytes_to_write)>> \o bytes_to_write

\* BinaryValueWriter_1_0::write_string, for a text of n one-byte characters
write_string(n) ==
    IF n <= MAX_INLINE_LENGTH THEN <<128 + n>> \o Repeat(97, n)
    ELSE <<142>> \o write_u64(U64(n)) \o Repeat(97, n)

\* BinaryValueWriter_1_0::write_symbol_id
write_symbol_id(symbol_id) ==
    LET raw == MagnitudeBytes(symbol_id)
    IN  IF Len(raw) <= MAX_INLINE_LENGTH THEN <<112 + Len(raw)>> \o raw
        ELSE <<126>> \o write_u64(U64(Len(raw))) \o raw

\* WriteAsIon for a scalar through a value writer: the bytes pushed to the
\* value writer's buffer and the result.  A text symbol is refused by
\* BinaryValueWriter_1_0::write_symbol.
WriteScalar(value) ==
    IF value.kind = "int" THEN [res |-> "Ok", bytes |-> write_i64(value.v)]
    ELSE IF value.kind = "string" THEN [res |-> "Ok", bytes |-> write_string(value.len)]
    ELSE IF value.kind = "symbol_id" THEN [res |-> "Ok", bytes |-> write_symbol_id(value.v)]
    ELSE [res |-> "IllegalOperation", bytes |-> <<>>]

\* ---------------------------------------------------------------------
\* Container writers (src/lazy/encoder/binary/mod.rs)
\* ---------------------------------------------------------------------
LIST_TYPE_CODE == 176
SEXP_TYPE_CODE == 192
STRUCT_TYPE_CODE == 208

TypeCodes == {LIST_TYPE_CODE, SEXP_TYPE_CODE, STRUCT_TYPE_CODE}

\* BinaryContainerWriter_1_0::new: a fresh, empty scratch buffer.
NewContainer(type_code) == [type_code |-> type_code, encoding_buffer |-> <<>>]

\* An end() that takes the inline form only below MAX_INLINE_LENGTH.
end_strict(parent_buffer, type_code, encoding_buffer) ==
    LET body_length == Len(encoding_buffer)
    IN  IF body_length < MAX_INLINE_LENGTH
        THEN parent_buffer \o <<type_code + body_length>> \o encoding_buffer
        ELSE parent_buffer \o <<type_code + 14>> \o write_u64(U64(body_length))
                 \o encoding_buffer

\* BinaryContainerWriter_1_0::end: the parent buffer afterwards.
end(parent_buffer, type_code, encoding_buffer) ==
    LET body_length == Len(encoding_buffer)
    IN  IF body_length <= MAX_INLINE_LENGTH
        THEN parent_buffer \o <<type_code + body_length>> \o encoding_buffer
        ELSE parent_buffer \o <<type_code + 14>> \o write_u64(U64(body_length))
                 \o encoding_buffer

SidName(sid) == [kind |-> "sid", sid |-> sid]
TextName == [kind |-> "text", sid |-> 0]
FieldNames == {SidName(0), SidName(4), SidName(200), TextName}

\* A field name match that lets a text token through as SID 0.
field_name_lenient(name) == [res |-> "Ok", bytes |-> write_u64(U64(name.sid))]

\* The first half of BinaryStructWriter_1_0::write: the match on the field
\* name and the VarUInt of the SID.
field_name(name) ==
    IF name.kind = "sid" THEN [res |-> "Ok", bytes |-> write_u64(U64(name.sid))]
    ELSE [res |-> "Encoding", bytes |-> <<>>]

\* ---------------------------------------------------------------------
\* The top-level writer (src/lazy/encoder/binary/mod.rs)
\* ---------------------------------------------------------------------
NonePtr == [set |-> FALSE, gen |-> 0]
SomePtr(gen) == [set |-> TRUE, gen |-> gen]

IVM_BYTES == <<224, 1, 0, 234>>

\* What may be found when memory released by an arena reset is read.
Garbage == <<255>>

\* ptr_to_mut_ref on encoding_buffer_ptr: the buffer the reference shows.
\* The pointer is valid while the arena it was allocated in has not been
\* reset; through a pointer into a reset arena the old bytes, other bytes or
\* a fault may be seen.
Deref ==
    IF encoding_buffer_ptr.gen = arena_gen
    THEN { [crashed |-> FALSE, buffer |-> top_buffer] }
    ELSE { [crashed |-> FALSE, buffer |-> top_buffer],
           [crashed |-> FALSE, buffer |-> Garbage],
           [crashed |-> TRUE,  buffer |-> top_buffer] }

\* LazyRawBinaryWriter_1_0::value_writer: the pointer afterwards and the
\* buffer the value writer appends to.
value_writer ==
    IF encoding_buffer_ptr.set
    THEN { [ptr |-> encoding_buffer_ptr, crashed |-> d.crashed, buffer |-> d.buffer] :
             d \in Deref }
    ELSE { [ptr |-> SomePtr(arena_gen), crashed |-> FALSE, buffer |-> <<>>] }

WriterInit ==
    /\ output = IVM_BYTES
    /\ arena_gen = 0
    /\ encoding_buffer_ptr = NonePtr
    /\ top_buffer = <<>>
    /\ containers = <<>>
    /\ result = "Ok"
    /\ last_op = "new"
    /\ values_written = 0
    /\ written = <<>>
    /\ open_values = <<>>
    /\ due_output = IVM_BYTES

Alive == result # "Crash"

Depth == Len(containers)

\* The buffer below container i: the top-level buffer or the scratch buffer
\* of the container around it.
ParentBuffer(i) == IF i = 1 THEN top_buffer ELSE containers[i - 1].encoding_buffer

Crashed ==
    /\ result' = "Crash"
    /\ UNCHANGED <<output, arena_gen, encoding_buffer_ptr, top_buffer, containers,
                   values_written, written, open_values, due_output>>

\* A child of a container as the application handed it over: the field name
\* (NoName in a list or an s-expression) and the value.
NoName == 0 - 1
Child(name, value) == [name |-> name, value |-> value]
ContainerValue(type_code, children) ==
    [kind |-> "container", v |-> type_code, len |-> 0, children |-> children]
OpenValue(name) == [name |-> name, children |-> <<>>]

\* LazyRawBinaryWriter_1_0::write with a scalar.
WriterWrite(value) ==
    /\ Alive /\ Depth = 0 /\ values_written < MaxValues
    /\ last_op' = "write"
    /\ \E vw \in value_writer :
         IF vw.crashed THEN Crashed
         ELSE LET w == WriteScalar(value) IN
              /\ encoding_buffer_ptr' = vw.ptr
              /\ top_buffer' = vw.buffer \o w.bytes
              /\ result' = w.res
              /\ values_written' = values_written + 1
              /\ written' = IF w.res = "Ok" THEN Append(written, value) ELSE written
              /\ due_output' = IF w.res = "Ok" THEN due_output \o w.bytes ELSE due_output
              /\ UNCHANGED <<output, arena_gen, containers, open_values>>
    /\ UNCHANGED <<readerVars, blockingVars, codecVars, elementVars, versionVars, appVars>>

\* value_writer().write_list / write_sexp / write_struct, up to the call of
\* the user's callback.
WriterWriteContainer(type_code) ==
    /\ Alive /\ Depth = 0 /\ values_written < MaxValues /\ Depth < MaxDepth
    /\ last_op' = "begin"
    /\ \E vw \in value_writer :
         IF vw.crashed THEN Crashed
         ELSE /\ encoding_buffer_ptr' = vw.ptr
              /\ top_buffer' = vw.buffer
              /\ containers' = <<NewContainer(type_code)>>
              /\ result' = "Ok"
              /\ values_written' = values_written + 1
              /\ open_values' = <<OpenValue(NoName)>>
              /\ UNCHANGED <<output, arena_gen, written, due_output>>
    /\ UNCHANGED <<readerVars, blockingVars, codecVars, elementVars, versionVars, appVars>>

IsSequence(c) == c.type_code \in {LIST_TYPE_CODE, SEXP_TYPE_CODE}

\* BinaryContainerWriter_1_0::write with a scalar, inside a callback.
ContainerWrite(value) ==
    /\ Alive /\ Depth > 0 /\ values_written < MaxValues
    /\ IsSequence(containers[Depth])
    /\ LET w == WriteScalar(value) IN
       /\ containers' = [containers EXCEPT ![Depth].encoding_buffer = @ \o w.bytes]
       /\ result' = w.res
       /\ open_values' = IF w.res = "Ok"
                         THEN [open_values EXCEPT
                                 ![Depth].children = Append(@, Child(NoName, value))]
                         ELSE open_values
    /\ last_op' = "write"
    /\ values_written' = values_written + 1
    /\ UNCHANGED <<output, arena_gen, encoding_buffer_ptr, top_buffer, written, due_output>>
    /\ UNCHANGED <<readerVars, blockingVars, codecVars, elementVars, versionVars, appVars>>

\* BinaryContainerWriter_1_0::write with a container value, up to the call of
\* the nested callback.
ContainerWriteContainer(type_code) ==
    /\ Alive /\ Depth > 0 /\ values_written < MaxValues /\ Depth < MaxDepth
    /\ IsSequence(containers[Depth])
    /\ containers' = Append(containers, NewContainer(type_code))
    /\ result' = "Ok"
    /\ last_op' = "begin"
    /\ values_written' = values_written + 1
    /\ open_values' = Append(open_values, OpenValue(NoName))
    /\ UNCHANGED <<output, arena_gen, encoding_buffer_ptr, top_buffer, written, due_output>>
    /\ UNCHANGED <<readerVars, blockingVars, codecVars, elementVars, versionVars, appVars>>

\* BinaryStructWriter_1_0::write with a scalar value.
StructWrite(name, value) ==
    /\ Alive /\ Depth > 0 /\ values_written < MaxValues
    /\ containers[Depth].type_code = STRUCT_TYPE_CODE
    /\ last_op' = IF name.kind = "text" THEN "field_text" ELSE "field_sid"
    /\ LET n == field_name(name) IN
       IF n.res # "Ok"
       THEN /\ result' = n.res
            /\ UNCHANGED <<containers, values_written, open_values>>
       ELSE LET w == WriteScalar(value) IN
            /\ containers' = [containers EXCEPT
                                ![Depth].encoding_buffer = @ \o n.bytes \o w.bytes]
            /\ result' = w.res
            /\ values_written' = values_written + 1
            /\ open_values' = IF w.res = "Ok"
                              THEN [open_values EXCEPT
                                      ![Depth].children = Append(@, Child(name.sid, value))]
                              ELSE open_values
    /\ UNCHANGED <<output, arena_gen, encoding_buffer_ptr, top_buffer, written, due_output>>
    /\ UNCHANGED <<readerVars, blockingVars, codecVars, elementVars, versionVars, appVars>>

\* BinaryStructWriter_1_0::write with a container value, up to the call of the
\* nested callback.
StructWriteContainer(name, type_code) ==
    /\ Alive /\ Depth > 0 /\ values_written < MaxValues /\ Depth < MaxDepth
    /\ containers[Depth].type_code = STRUCT_TYPE_CODE
    /\ last_op' = IF name.kind = "text" THEN "field_text" ELSE "begin"
    /\ LET n == field_name(name) IN
       IF n.res # "Ok"
       THEN /\ result' = n.res
            /\ UNCHANGED <<containers, values_written, open_values>>
       ELSE /\ containers' = Append([containers EXCEPT
                                       ![Depth].encoding_buffer = @ \o n.bytes],
                                    NewContainer(type_code))
            /\ result' = "Ok"
            /\ values_written' = values_written + 1
            /\ open_values' = Append(open_values, OpenValue(name.sid))
    /\ UNCHANGED <<output, arena_gen, encoding_buffer_ptr, top_buffer, written, due_output>>
    /\ UNCHANGED <<readerVars, blockingVars, codecVars, elementVars, versionVars, appVars>>

\* The callback returned Ok: write_list / write_sexp / write_struct call end().
ContainerEnd ==
    /\ Alive /\ Depth > 0
    /\ LET c == containers[Depth]
           p == end(ParentBuffer(Depth), c.type_code, c.encoding_buffer)
       IN  IF Depth = 1
           THEN /\ top_buffer' = p
                /\ containers' = <<>>
           ELSE /\ top_buffer' = top_buffer
                /\ containers' = [SubSeq(containers, 1, Depth - 1) EXCEPT
                                    ![Depth - 1].encoding_buffer = p]
    /\ LET o == open_values[Depth]
           v == ContainerValue(containers[Depth].type_code, o.children)
       IN  IF Depth = 1
           THEN /\ written' = Append(written, v)
                /\ open_values' = <<>>
                /\ due_output' = due_output
                                    \o end(<<>>, containers[1].type_code,
                                           containers[1].encoding_buffer)
           ELSE /\ written' = written
                /\ due_output' = due_output
                /\ open_values' = [SubSeq(open_values, 1, Depth - 1) EXCEPT
                                     ![Depth - 1].children = Append(@, Child(o.name, v))]
    /\ result' = "Ok"
    /\ last_op' = "end"
    /\ UNCHANGED <<output, arena_gen, encoding_buffer_ptr, values_written>>
    /\ UNCHANGED <<readerVars, blockingVars, codecVars, elementVars, versionVars, appVars>>

\* A failing callback after which the container is written to its parent all
\* the same.
CallbackError_commits ==
    /\ Alive /\ Depth > 0
    /\ LET c == containers[Depth]
           p == end(ParentBuffer(Depth), c.type_code, c.encoding_buffer)
       IN  IF Depth = 1
           THEN /\ top_buffer' = p
                /\ containers' = <<>>
           ELSE /\ top_buffer' = top_buffer
                /\ containers' = [SubSeq(containers, 1, Depth - 1) EXCEPT
                                    ![Depth - 1].encoding_buffer = p]
    /\ result' = "Err"
    /\ last_op' = "callback_error"
    /\ open_values' = SubSeq(open_values, 1, Depth - 1)
    /\ UNCHANGED <<output, arena_gen, encoding_buffer_ptr, values_written, written, due_output>>
    /\ UNCHANGED <<readerVars, blockingVars, codecVars, elementVars, versionVars, appVars>>

\* The callback returned an error: `list_fn(&mut list_writer)?` leaves
\* write_list before end() and the container writer is dropped.
CallbackError ==
    /\ Alive /\ Depth > 0
    /\ containers' = SubSeq(containers, 1, Depth - 1)
    /\ open_values' = SubSeq(open_values, 1, Depth - 1)
    /\ result' = "Err"
    /\ last_op' = "callback_error"
    /\ UNCHANGED <<output, arena_gen, encoding_buffer_ptr, top_buffer, values_written,
                   written, due_output>>
    /\ UNCHANGED <<readerVars, blockingVars, codecVars, elementVars, versionVars, appVars>>

\* LazyRawBinaryWriter_1_0::flush
Flush ==
    /\ Alive /\ Depth = 0 /\ arena_gen < MaxFlushes
    /\ last_op' = "flush"
    /\ IF encoding_buffer_ptr.set
       THEN \E d \in Deref :
              IF d.crashed THEN Crashed
              ELSE /\ output' = output \o d.buffer
                   /\ top_buffer' = d.buffer
                   /\ arena_gen' = arena_gen + 1
                   /\ result' = "Ok"
                   /\ UNCHANGED <<encoding_buffer_ptr, containers, values_written,
                                  written, open_values, due_output>>
       ELSE /\ arena_gen' = arena_gen + 1
            /\ result' = "Ok"
            /\ UNCHANGED <<output, top_buffer, encoding_buffer_ptr, containers,
                           values_written, written, open_values, due_output>>
    /\ UNCHANGED <<readerVars, blockingVars, codecVars, elementVars, versionVars, appVars>>

\* ---------------------------------------------------------------------
\* Reading the sink back (the Ion 1.0 binary format)
\* ---------------------------------------------------------------------
\* The number a big-endian magnitude stands for.
RECURSIVE MagnitudeOf(_)
MagnitudeOf(bytes) ==
    IF bytes = <<>> THEN 0
    ELSE 256 * MagnitudeOf(SubSeq(bytes, 1, Len(bytes) - 1)) + bytes[Len(bytes)]

\* The type descriptor at index i and the length that goes with it: where the
\* body begins and ends.
Header(bytes, i) ==
    LET type_code == bytes[i] \div 16
        L         == bytes[i] % 16
    IN  IF L = 14
        THEN LET len == var_uint_read(bytes, i + 1)
             IN  [ok |-> len.ok /\ Below(len.value, 20), type_code |-> type_code,
                  start |-> i + 1 + len.size_in_bytes,
                  end |-> i + len.size_in_bytes + ToNat(len.value)]
        ELSE [ok |-> L # 15, type_code |-> type_code, start |-> i + 1, end |-> i + L]

DecodeFailed == [ok |-> FALSE, values |-> <<>>]

RECURSIVE DecodeValues(_, _, _, _)
\* The values encoded in bytes[from..to]; in a struct each value comes after
\* the VarUInt of its field name.  A version marker is passed over at the top
\* level.
DecodeValues(bytes, from, to, in_struct) ==
    IF from > to THEN [ok |-> TRUE, values |-> <<>>]
    ELSE IF ~in_struct /\ from + 3 <= to /\ SubSeq(bytes, from, from + 3) = IVM_BYTES
    THEN DecodeValues(bytes, from + 4, to, in_struct)
    ELSE LET field == IF in_struct THEN var_uint_read(SubSeq(bytes, 1, to), from)
                      ELSE [ok |-> TRUE, value |-> U64(0), size_in_bytes |-> 0]
             at    == from + field.size_in_bytes
         IN  IF ~field.ok \/ at > to THEN DecodeFailed
             ELSE LET h    == Header(SubSeq(bytes, 1, to), at)
                      name == IF in_struct THEN ToNat(field.value) ELSE NoName
                  IN  IF ~h.ok \/ h.end > to THEN DecodeFailed
                      ELSE LET body == SubSeq(bytes, h.start, h.end)
                               rest == DecodeValues(bytes, h.end + 1, to, in_struct)
                               inner == IF h.type_code \in {11, 12, 13}
                                        THEN DecodeValues(bytes, h.start, h.end,
                                                          h.type_code = 13)
                                        ELSE [ok |-> TRUE, values |-> <<>>]
                               value ==
                                   IF h.type_code = 2 THEN IntValue(MagnitudeOf(body))
                                   ELSE IF h.type_code = 7
                                   THEN SymbolIdValue(MagnitudeOf(body))
                                   ELSE IF h.type_code = 8
                                   THEN IF body = Repeat(97, Len(body))
                                        THEN StringValue(Len(body))
                                        ELSE [kind |-> "string", v |-> 1, len |-> Len(body)]
                                   ELSE ContainerValue(16 * h.type_code,
                                                       [k \in 1..Len(inner.values) |->
                                                          IF h.type_code = 13
                                                          THEN inner.values[k]
                                                          ELSE Child(NoName, inner.values[k])])
                           IN  IF \/ h.type_code \notin {2, 7, 8, 11, 12, 13}
                                  \/ ~inner.ok \/ ~rest.ok
                               THEN DecodeFailed
                               ELSE [ok |-> TRUE,
                                     values |-> << IF in_struct THEN Child(name, value)
                                                   ELSE value >> \o rest.values]

\* What a reader finds in the bytes of the sink.
ReadAll(bytes) == DecodeValues(bytes, 1, Len(bytes), FALSE)


\* ---------------------------------------------------------------------
\* The blocking adapter (src/blocking_lazy_reader.rs)
\* ---------------------------------------------------------------------
Min(a, b) == IF a < b THEN a ELSE b

RECURSIVE Sum(_)
Sum(sizes) == IF sizes = <<>> THEN 0 ELSE sizes[1] + Sum(Tail(sizes))

\* The offsets at which the items of the stream begin.
ItemStart(k) == Sum(SubSeq(stream_items, 1, k - 1))

\* R::next over the bytes the parser holds from `at` on: an item when all of
\* its bytes are there, Incomplete when only some are, the end of the stream
\* when there are none.
Parse(held, at) ==
    IF held <= at THEN [res |-> "EndOfStream", next_item_offset |-> at]
    ELSE LET k == CHOOSE j \in 1..Len(stream_items) : ItemStart(j) = at
         IN  IF at + stream_items[k] <= held
             THEN [res |-> "Item", next_item_offset |-> at + stream_items[k]]
             ELSE [res |-> "Incomplete", next_item_offset |-> at]

\* R::read_from on a byte slice: as many bytes as asked for, or all that is left.
read_from(src, length) == Min(src, length)

\* BlockingLazyRawReader::read_source: the bytes read by the loop.
RECURSIVE read_source_loop(_, _, _)
read_source_loop(src, length, bytes_read) ==
    LET n   == read_from(src, length)
        sum == bytes_read + n
    IN  IF n = 0 \/ sum >= length THEN sum
        ELSE read_source_loop(src - n, length, sum)

read_source(src, length) == read_source_loop(src, length, 0)

\* The Incomplete arm of BlockingLazyRawReader::next: the refill loop.  It is
\* left only by `return result`, after a read of no bytes from a stream that
\* was already marked complete.
RECURSIVE on_incomplete(_, _, _)
on_incomplete(st, first, read_size) ==
    LET bytes_read == read_source(st.source, read_size)
        st1 == [st EXCEPT !.source = @ - bytes_read, !.held = @ + bytes_read]
    IN  IF bytes_read = 0 /\ st1.complete THEN [st1 EXCEPT !.res = first.res]
        ELSE on_incomplete(IF bytes_read = 0 THEN [st1 EXCEPT !.complete = TRUE] ELSE st1,
                           first,
                           Min(read_size * 2, expected_read_size * 10))

ItemSizes == 1..MaxItemSize

\* BlockingLazyRawReader::new_with_size over a stream of items, possibly cut
\* short inside its last item: the first read_source(size).
BlockingInit ==
    /\ stream_items \in SeqsUpTo(ItemSizes, MaxItems)
    /\ expected_read_size \in 1..MaxReadSize
    /\ \E cut \in 0..1 :
         /\ cut <= Sum(stream_items)
         /\ LET total == Sum(stream_items) - cut
                n     == read_source(total, expected_read_size)
            IN  /\ source = total - n
                /\ reader_bytes = n
                /\ source_before = total
    /\ reader_complete = FALSE
    /\ offset = 0
    /\ next_result = "None"
    /\ first_parse = "None"
    /\ parse_calls = 0

\* BlockingLazyRawReader::next
BlockingNext ==
    LET first == Parse(reader_bytes, offset)
        st0   == [source |-> source, held |-> reader_bytes, complete |-> reader_complete,
                  offset |-> offset, res |-> first.res, parses |-> 1]
        st    == IF first.res = "Incomplete"
                 THEN on_incomplete(st0, first, expected_read_size)
                 ELSE [st0 EXCEPT !.offset = first.next_item_offset]
    IN  /\ first_parse' = first.res
        /\ source_before' = source
        /\ source' = st.source
        /\ reader_bytes' = st.held
        /\ reader_complete' = st.complete
        /\ offset' = st.offset
        /\ next_result' = st.res
        /\ parse_calls' = st.parses
        /\ UNCHANGED <<stream_items, expected_read_size>>
        /\ UNCHANGED <<readerVars, writerVars, codecVars, elementVars, versionVars, appVars>>

\* The blocking reader before it is constructed over a stream.
BlockingIdle ==
    /\ stream_items = <<>>
    /\ expected_read_size = 1
    /\ source = 0
    /\ reader_bytes = 0
    /\ source_before = 0
    /\ reader_complete = FALSE
    /\ offset = 0
    /\ next_result = "None"
    /\ first_parse = "None"
    /\ parse_calls = 0

\* ---------------------------------------------------------------------
\* ElementStreamReader (src/element/element_stream_reader.rs)
\* ---------------------------------------------------------------------
\* An element: its Ion type, whether it is null, its children, and an id
\* that tells the nodes of one tree apart.
Elem(id, ty, null, children) == [id |-> id, ty |-> ty, null |-> null, children |-> children]

IntOf(id) == Elem(id, "Int", FALSE, <<>>)
NullListOf(id) == Elem(id, "List", TRUE, <<>>)
ListOf(id, children) == Elem(id, "List", FALSE, children)
StructOf(id, children) == Elem(id, "Struct", FALSE, children)

\* Option::None for an element
NoElement == Elem(0, "None", FALSE, <<>>)

\* IonType::is_container
is_container(ty) == ty \in {"List", "SExp", "Struct"}

\* The elements a reader is built over.
Elements ==
    { IntOf(1),
      ListOf(1, <<>>),
      ListOf(1, <<IntOf(2), IntOf(3), IntOf(4)>>),
      ListOf(1, <<ListOf(2, <<IntOf(3), IntOf(4)>>), IntOf(5)>>),
      StructOf(1, <<IntOf(2), StructOf(3, <<IntOf(4), ListOf(5, <<IntOf(6)>>)>>), NullListOf(7)>>),
      ListOf(1, <<ListOf(2, <<ListOf(3, <<IntOf(4)>>), IntOf(5)>>), ListOf(6, <<IntOf(7)>>)>>) }

\* ElementStreamReader::new
NewElementReader(e) ==
    /\ element = e
    /\ current_iter = <<>>
    /\ iter_stack = <<>>
    /\ current_value = NoElement
    /\ is_eof = FALSE
    /\ parents = <<>>

\* A step_in that pushes the parent before it looks at the value.
step_in_push_first(rd) ==
    IF rd.current_value = NoElement THEN [rd |-> rd, res |-> "IllegalOperation"]
    ELSE IF ~is_container(rd.current_value.ty)
    THEN [rd |-> [rd EXCEPT !.parents = Append(@, rd.current_value.ty)],
          res |-> "IllegalOperation"]
    ELSE IF rd.current_value.null
    THEN [rd |-> [rd EXCEPT !.parents = Append(@, rd.current_value.ty)], res |-> "Panic"]
    ELSE [rd |-> [rd EXCEPT !.parents = Append(@, rd.current_value.ty),
                            !.iter_stack = Append(@, rd.current_iter),
                            !.current_iter = rd.current_value.children,
                            !.current_value = NoElement],
          res |-> "Ok"]

\* ElementStreamReader::step_in: the reader afterwards and the result.
\* container_values() unwraps as_sequence() / as_struct(), which a null
\* container does not have.
step_in(rd) ==
    IF rd.current_value = NoElement THEN [rd |-> rd, res |-> "IllegalOperation"]
    ELSE IF ~is_container(rd.current_value.ty) THEN [rd |-> rd, res |-> "IllegalOperation"]
    ELSE IF rd.current_value.null
    THEN [rd |-> [rd EXCEPT !.parents = Append(@, rd.current_value.ty)], res |-> "Panic"]
    ELSE [rd |-> [rd EXCEPT !.parents = Append(@, rd.current_value.ty),
                            !.iter_stack = Append(@, rd.current_iter),
                            !.current_iter = rd.current_value.children,
                            !.current_value = NoElement],
          res |-> "Ok"]

RECURSIVE load_next_value(_)
RECURSIVE drain(_)
RECURSIVE step_out(_)

\* `while let Value(_) | Null(_) = self.next()? {}` in step_out
drain(rd) ==
    LET after == load_next_value(rd)
    IN  IF after.current_value = NoElement THEN after ELSE drain(after)

\* A way out of a container that keeps the iterator of the container left.
leave_container_keep_iter(rd) ==
    LET drained == drain(rd)
        depth   == Len(drained.parents)
        stack   == drained.iter_stack
    IN  [drained EXCEPT
            !.parents = SubSeq(@, 1, depth - 1),
            !.iter_stack = IF stack = <<>> THEN @ ELSE SubSeq(@, 1, Len(stack) - 1),
            !.current_value = NoElement]

\* ElementStreamReader::step_out once a parent is known to exist: read to the
\* end of the container (no parent is ever marked exhausted, so the loop
\* always runs), pop the parent, put back the iterator of the container
\* around it.
leave_container(rd) ==
    LET drained == drain(rd)
        depth   == Len(drained.parents)
        stack   == drained.iter_stack
    IN  [drained EXCEPT
            !.parents = SubSeq(@, 1, depth - 1),
            !.iter_stack = IF stack = <<>> THEN @ ELSE SubSeq(@, 1, Len(stack) - 1),
            !.current_iter = IF stack = <<>> THEN @ ELSE stack[Len(stack)],
            !.current_value = NoElement]

\* A step_out that does not look whether there is a parent.
step_out_unguarded(rd) == [rd |-> leave_container(rd), res |-> "Ok"]

\* ElementStreamReader::step_out
step_out(rd) ==
    IF rd.parents = <<>> THEN [rd |-> rd, res |-> "IllegalOperation"]
    ELSE [rd |-> leave_container(rd), res |-> "Ok"]

\* A load_next_value that steps into the container and stays there.
load_next_value_stay_inside(rd) ==
    LET need_to_skip_container ==
            /\ rd.current_value # NoElement
            /\ ~rd.current_value.null
            /\ is_container(rd.current_value.ty)
        skipped_over == IF need_to_skip_container THEN step_in(rd).rd ELSE rd
        unset == [skipped_over EXCEPT !.current_value = NoElement]
    IN  IF unset.parents = <<>>
        THEN IF unset.is_eof THEN unset
             ELSE [unset EXCEPT !.current_value = unset.element,
                                !.element = NoElement,
                                !.is_eof = TRUE]
        ELSE IF unset.current_iter = <<>> THEN unset
        ELSE [unset EXCEPT !.current_value = Head(unset.current_iter),
                           !.current_iter = Tail(unset.current_iter)]

\* ElementStreamReader::load_next_value
load_next_value(rd) ==
    LET need_to_skip_container ==
            /\ rd.current_value # NoElement
            /\ ~rd.current_value.null
            /\ is_container(rd.current_value.ty)
        skipped_over == IF need_to_skip_container THEN step_out(step_in(rd).rd).rd ELSE rd
        unset == [skipped_over EXCEPT !.current_value = NoElement]
    IN  IF unset.parents = <<>>
        THEN IF unset.is_eof THEN unset
             ELSE [unset EXCEPT !.current_value = unset.element,
                                !.element = NoElement,
                                !.is_eof = TRUE]
        ELSE IF unset.current_iter = <<>> THEN unset
        ELSE [unset EXCEPT !.current_value = Head(unset.current_iter),
                           !.current_iter = Tail(unset.current_iter)]

\* The reader as one record.
ElementReader ==
    [element |-> element, current_iter |-> current_iter, iter_stack |-> iter_stack,
     current_value |-> current_value, is_eof |-> is_eof, parents |-> parents]

SetElementReader(rd) ==
    /\ element' = rd.element
    /\ current_iter' = rd.current_iter
    /\ iter_stack' = rd.iter_stack
    /\ current_value' = rd.current_value
    /\ is_eof' = rd.is_eof
    /\ parents' = rd.parents

ElementIdle ==
    /\ input = NoElement
    /\ NewElementReader(NoElement)
    /\ element_op = "new" /\ element_result = "Ok"
    /\ entered = <<>> /\ exited = <<>> /\ skipped = 0 /\ depth_before = 0
    /\ expected_type = "None"

ElementInit ==
    /\ input \in Elements
    /\ NewElementReader(input)
    /\ element_op = "new" /\ element_result = "Ok"
    /\ entered = <<>> /\ exited = <<>> /\ skipped = 0 /\ depth_before = 0
    /\ expected_type = "None"

\* RawIonReader::next; current() tells what the reader is on.
ElementNext ==
    /\ element_result # "Panic"
    /\ SetElementReader(load_next_value(ElementReader))
    /\ element_op' = "next"
    /\ element_result' = IF current_value' = NoElement THEN "Nothing"
                         ELSE IF current_value'.null THEN "Null" ELSE "Value"
    /\ depth_before' = Len(parents)
    /\ UNCHANGED <<input, entered, exited, skipped, expected_type>>
    /\ UNCHANGED <<readerVars, writerVars, blockingVars, codecVars, versionVars,
                   appVars>>

\* RawIonReader::step_in
ElementStepIn ==
    /\ element_result # "Panic"
    /\ LET r == step_in(ElementReader)
       IN  /\ SetElementReader(r.rd)
           /\ element_result' = r.res
           /\ entered' = IF r.res = "Ok" THEN Append(entered, current_value.id) ELSE entered
    /\ element_op' = "step_in"
    /\ depth_before' = Len(parents)
    /\ UNCHANGED <<input, exited, skipped, expected_type>>
    /\ UNCHANGED <<readerVars, writerVars, blockingVars, codecVars, versionVars,
                   appVars>>

\* RawIonReader::step_out
ElementStepOut ==
    /\ element_result # "Panic"
    /\ LET r == step_out(ElementReader)
       IN  /\ SetElementReader(r.rd)
           /\ element_result' = r.res
           /\ IF r.res = "Ok" /\ entered # <<>>
              THEN /\ entered' = SubSeq(entered, 1, Len(entered) - 1)
                   /\ exited' = Append(exited, entered[Len(entered)])
                   /\ skipped' = Len(current_iter)
              ELSE UNCHANGED <<entered, exited, skipped>>
    /\ element_op' = "step_out"
    /\ depth_before' = Len(parents)
    /\ UNCHANGED <<input, expected_type>>
    /\ UNCHANGED <<readerVars, writerVars, blockingVars, codecVars, versionVars,
                   appVars>>

\* ElementStreamReader::read_value: the RawValueRef variant of the current
\* value; a null of any type is RawValueRef::Null.
read_value(rd) ==
    IF rd.current_value = NoElement THEN [res |-> "IllegalOperation", variant |-> "None"]
    ELSE [res |-> "Ok",
          variant |-> IF rd.current_value.null THEN "Null" ELSE rd.current_value.ty]

\* RawValueRef::expect_null, expect_int, expect_string, expect_list,
\* expect_struct: `if let RawValueRef::X(..) = self { Ok } else { decoding_error }`
expect(variant, expected) == IF variant = expected THEN "Ok" ELSE "DecodingError"

\* ReadRawValueRef::read_null, read_int, ...: `self.read_value()?.expect_x()`
read_as(rd, expected) ==
    LET value == read_value(rd)
    IN  IF value.res # "Ok" THEN value.res ELSE expect(value.variant, expected)

\* The types a caller asks for.
ExpectedTypes == {"Null", "Int", "String", "List", "Struct"}

\* ReadRawValueRef::read_<expected>
ElementRead(expected) ==
    /\ element_result # "Panic"
    /\ element_op' = "read"
    /\ expected_type' = expected
    /\ element_result' = read_as(ElementReader, expected)
    /\ depth_before' = Len(parents)
    /\ UNCHANGED <<element, current_iter, iter_stack, current_value, is_eof, parents,
                   input, entered, exited, skipped>>
    /\ UNCHANGED <<readerVars, writerVars, blockingVars, codecVars, versionVars,
                   appVars>>

\* ---------------------------------------------------------------------
\* Version markers (src/reader.rs, src/lazy/binary/raw/v1_1/reader.rs)
\* ---------------------------------------------------------------------
\* The largest major or minor version number tried.
MaxVersion == 2

IVM_START == 224
IVM_END == 234

\* The first four bytes of an input: a version marker for each version up to
\* MaxVersion, and four-byte inputs that are no marker (an int in front, or
\* something else at the end).
Headers ==
    { <<first, major, minor, last>> :
        first \in {IVM_START, 33}, major \in 0..MaxVersion, minor \in 0..MaxVersion,
        last \in {IVM_END, 0} }

\* ReaderBuilder::build: `match header { ... }`
ReaderBuilder_build(bytes) ==
    IF bytes = <<IVM_START, 1, 0, IVM_END>> THEN "BinaryReader"
    ELSE IF bytes[1] = IVM_START /\ bytes[4] = IVM_END THEN "DecodingError"
    ELSE "TextReader"

\* ImmutableBuffer::read_ivm: the (major, minor) of a well-formed marker.
buffer_read_ivm(bytes) ==
    IF bytes[1] = IVM_START /\ bytes[4] = IVM_END
    THEN [ok |-> TRUE, major |-> bytes[2], minor |-> bytes[3]]
    ELSE [ok |-> FALSE, major |-> 0, minor |-> 0]

\* LazyRawBinaryReader_1_1::read_ivm
read_ivm(bytes) ==
    LET marker == buffer_read_ivm(bytes)
    IN  IF ~marker.ok THEN "DecodingError"
        ELSE IF <<marker.major, marker.minor>> # <<1, 1>> THEN "DecodingError"
        ELSE "VersionMarker"

\* LazyRawBinaryReader_1_1::next on the first item of the input:
\* `if type_descriptor.is_ivm_start() { return self.read_ivm(buffer); }`
raw_1_1_next(bytes) ==
    IF bytes[1] = IVM_START THEN read_ivm(bytes) ELSE "Value"

NotRun == "NotRun"

VersionIdle ==
    /\ header = <<>>
    /\ build_result = NotRun
    /\ raw_1_1_result = NotRun

VersionInit ==
    /\ header \in Headers
    /\ build_result = NotRun
    /\ raw_1_1_result = NotRun

\* ReaderBuilder::build over the input
Build ==
    /\ build_result = NotRun
    /\ build_result' = ReaderBuilder_build(header)
    /\ UNCHANGED <<header, raw_1_1_result>>
    /\ UNCHANGED <<readerVars, writerVars, blockingVars, codecVars, elementVars,
                   appVars>>

\* LazyRawBinaryReader_1_1::next over the input
RawNext_1_1 ==
    /\ raw_1_1_result = NotRun
    /\ raw_1_1_result' = raw_1_1_next(header)
    /\ UNCHANGED <<header, build_result>>
    /\ UNCHANGED <<readerVars, writerVars, blockingVars, codecVars, elementVars,
                   appVars>>


\* ---------------------------------------------------------------------
\* ApplicationWriter (src/lazy/encoder/application_writer.rs)
\* ---------------------------------------------------------------------
\* The number of values handed to one application writer.
MaxAppWrites == 3
\* The number of flushes of one application writer.
MaxAppFlushes == 3

\* system_symbol_ids
ION_SYMBOL_TABLE == 3

\* What the two raw writers encode, value by value: the version marker, a
\* symbol value, $ion_symbol_table::{imports: <SID>, symbols: [...]}, and
\* what released memory may hold in place of a value.
IvmItem == [kind |-> "ivm", annotations |-> <<>>, imports |-> 0, symbols |-> <<>>, sid |-> 0]
SymbolItem(sid) ==
    [kind |-> "symbol", annotations |-> <<>>, imports |-> 0, symbols |-> <<>>, sid |-> sid]
DirectiveItem(symbols) ==
    [kind |-> "struct", annotations |-> <<ION_SYMBOL_TABLE>>, imports |-> ION_SYMBOL_TABLE,
     symbols |-> symbols, sid |-> 0]
GarbageItem == [kind |-> "garbage", annotations |-> <<>>, imports |-> 0, symbols |-> <<>>, sid |-> 0]

\* A raw writer over a Vec: encoding_buffer_ptr, the generation of its
\* arena, the bytes at the address the pointer holds, and the Vec.
\* E::Writer::new(Vec::new()) writes the version marker to the Vec.
NewRawWriter ==
    [encoding_buffer_ptr |-> NonePtr, arena_gen |-> 0, top_buffer |-> <<>>,
     output |-> <<IvmItem>>]

\* ptr_to_mut_ref on a raw writer's encoding_buffer_ptr (see Deref).
DerefOf(w) ==
    IF w.encoding_buffer_ptr.gen = w.arena_gen
    THEN { [crashed |-> FALSE, buffer |-> w.top_buffer] }
    ELSE { [crashed |-> FALSE, buffer |-> w.top_buffer],
           [crashed |-> FALSE, buffer |-> <<GarbageItem>>],
           [crashed |-> TRUE,  buffer |-> w.top_buffer] }

\* LazyRawBinaryWriter_1_0::write of one value: value_writer() allocates the
\* buffer or follows the pointer, then the value is appended.
RawWrite(w, item) ==
    IF w.encoding_buffer_ptr.set
    THEN { [crashed |-> d.crashed,
            w |-> [w EXCEPT !.top_buffer = d.buffer \o <<item>>]] : d \in DerefOf(w) }
    ELSE { [crashed |-> FALSE,
            w |-> [w EXCEPT !.encoding_buffer_ptr = SomePtr(w.arena_gen),
                            !.top_buffer = <<item>>]] }

\* LazyRawBinaryWriter_1_0::flush: the buffer goes to the Vec, the arena is
\* reset, the pointer stays as it is.
RawFlush(w) ==
    IF w.encoding_buffer_ptr.set
    THEN { [crashed |-> d.crashed,
            w |-> [w EXCEPT !.output = @ \o d.buffer,
                            !.top_buffer = d.buffer,
                            !.arena_gen = @ + 1]] : d \in DerefOf(w) }
    ELSE { [crashed |-> FALSE, w |-> [w EXCEPT !.arena_gen = @ + 1]] }

\* SymbolTable::symbols_tail
symbols_tail(t, start) == SubSeq(t.symbols_by_id, start + 1, Len(t.symbols_by_id))

\* ApplicationWriter::new: the data writer's version marker is cleared, the
\* directive writer's is not.
AppInit ==
    /\ app_symbol_table = NewSymbolTable
    /\ num_symbols_last_flush = TableLen(NewSymbolTable)
    /\ directive_writer = NewRawWriter
    /\ data_writer = [NewRawWriter EXCEPT !.output = <<>>]
    /\ app_output = <<>>
    /\ app_op = "new"
    /\ app_result = "Ok"
    /\ new_texts = <<>>
    /\ app_writes = 0

AppAlive == app_result # "Crash"

AppCrashed ==
    /\ app_result' = "Crash"
    /\ UNCHANGED <<app_symbol_table, num_symbols_last_flush, directive_writer,
                   data_writer, app_output, new_texts>>

\* The symbol tokens a caller writes.
SymbolTokens == { [kind |-> "text", text |-> "a", sid |-> 0],
                  [kind |-> "text", text |-> "b", sid |-> 0],
                  [kind |-> "sid", text |-> "", sid |-> 4] }

\* ApplicationValueWriter::write_symbol, for an encoding that has no text
\* symbol tokens (binary Ion 1.0).
AppWriteSymbol(token) ==
    /\ AppAlive /\ app_writes < MaxAppWrites
    /\ app_op' = "write_symbol"
    /\ app_writes' = app_writes + 1
    /\ LET table == IF token.kind = "text" THEN intern(app_symbol_table, token.text)
                    ELSE app_symbol_table
           sid   == IF token.kind = "text" THEN internId(app_symbol_table, token.text)
                    ELSE token.sid
       IN  \E o \in RawWrite(data_writer, SymbolItem(sid)) :
             IF o.crashed THEN AppCrashed
             ELSE /\ app_symbol_table' = table
                  /\ data_writer' = o.w
                  /\ new_texts' = IF table # app_symbol_table
                                  THEN Append(new_texts, token.text) ELSE new_texts
                  /\ app_result' = "Ok"
                  /\ UNCHANGED <<num_symbols_last_flush, directive_writer, app_output>>
    /\ UNCHANGED <<readerVars, writerVars, blockingVars, codecVars, elementVars,
                   versionVars>>

\* The first half of ApplicationWriter::flush: when there are new symbols,
\* the symbol table struct is written to the directive writer and the
\* directive writer is flushed.
DirectiveOutcomes(w, new_symbols) ==
    IF Len(new_symbols) > 0
    THEN UNION { { [crashed |-> written_o.crashed \/ flushed.crashed, w |-> flushed.w] :
                     flushed \in RawFlush(written_o.w) } :
                 written_o \in RawWrite(w, DirectiveItem(new_symbols)) }
    ELSE { [crashed |-> FALSE, w |-> w] }

\* ApplicationWriter::flush
AppFlush ==
    /\ AppAlive /\ data_writer.arena_gen < MaxAppFlushes
    /\ app_op' = "flush"
    /\ LET new_symbols == symbols_tail(app_symbol_table, num_symbols_last_flush)
       IN  \E d \in DirectiveOutcomes(directive_writer, new_symbols),
              u \in RawFlush(data_writer) :
             IF d.crashed \/ u.crashed THEN AppCrashed
             ELSE /\ num_symbols_last_flush' = TableLen(app_symbol_table)
                  /\ directive_writer' = [d.w EXCEPT !.output = <<>>]
                  /\ data_writer' = [u.w EXCEPT !.output = <<>>]
                  /\ app_output' = app_output \o d.w.output \o u.w.output
                  /\ new_texts' = <<>>
                  /\ app_result' = "Ok"
                  /\ UNCHANGED app_symbol_table
    /\ UNCHANGED app_writes
    /\ UNCHANGED <<readerVars, writerVars, blockingVars, codecVars, elementVars,
                   versionVars>>

Init == ReaderInit /\ WriterInit /\ BlockingIdle /\ CodecIdle /\ ElementIdle /\ VersionIdle
    /\ AppInit

NextReader == ReaderNext

SpecReader == Init /\ [][NextReader]_vars

NextWriter ==
    \/ \E value \in ScalarValues : WriterWrite(value)
    \/ \E type_code \in TypeCodes : WriterWriteContainer(type_code)
    \/ \E value \in ScalarValues : ContainerWrite(value)
    \/ \E type_code \in TypeCodes : ContainerWriteContainer(type_code)
    \/ \E name \in FieldNames, value \in ScalarValues : StructWrite(name, value)
    \/ \E name \in FieldNames, type_code \in TypeCodes :
         StructWriteContainer(name, type_code)
    \/ ContainerEnd
    \/ CallbackError
    \/ Flush

SpecWriter == Init /\ [][NextWriter]_vars

InitBlocking == ReaderInit /\ WriterInit /\ BlockingInit /\ CodecIdle /\ ElementIdle /\ VersionIdle
    /\ AppInit

NextBlocking == BlockingNext

SpecBlocking == InitBlocking /\ [][NextBlocking]_vars

InitCodec == ReaderInit /\ WriterInit /\ BlockingIdle /\ CodecInit /\ ElementIdle /\ VersionIdle
    /\ AppInit

NextCodec ==
    \/ VarUIntWrite
    \/ VarUIntRead
    \/ EncodeVarUInt
    \/ DecodeVarUInt

SpecCodec == InitCodec /\ [][NextCodec]_vars

InitElement == ReaderInit /\ WriterInit /\ BlockingIdle /\ CodecIdle /\ ElementInit /\ VersionIdle
    /\ AppInit

NextElement ==
    \/ ElementNext
    \/ ElementStepIn
    \/ ElementStepOut
    \/ \E expected \in ExpectedTypes : ElementRead(expected)

SpecElement == InitElement /\ [][NextElement]_vars

InitVersion ==
    ReaderInit /\ WriterInit /\ BlockingIdle /\ CodecIdle /\ ElementIdle /\ VersionInit
    /\ AppInit

NextVersion ==
    \/ Build
    \/ RawNext_1_1

SpecVersion == InitVersion /\ [][NextVersion]_vars

NextApp ==
    \/ \E token \in SymbolTokens : AppWriteSymbol(token)
    \/ AppFlush

SpecApp == Init /\ [][NextApp]_vars

\* ---------------------------------------------------------------------
\* Properties of the reader
\* ---------------------------------------------------------------------
IsPrefix(s, t) == Len(s) <= Len(t) /\ \A i \in 1..Len(s) : s[i] = t[i]

SystemTexts == Range(SYSTEM_SYMBOLS)

\* The last system item was a symbol table struct that was read to its end.
LstProcessed ==
    /\ last_system_item.kind = "value"
    /\ returned # Panic

HasAppendImports(fields) ==
    \E i \in 1..Len(fields) :
        fields[i].id = 6 /\ fields[i].ty = "Symbol" /\ fields[i].sid = 3

\* The texts of all the strings in the symbols lists of a struct.
ListedTexts(fields) ==
    UNION { { fields[i].items[k].text :
                k \in { n \in 1..Len(fields[i].items) : fields[i].items[n].ty = "String" } } :
              i \in { j \in 1..Len(fields) : fields[j].id = 7 } }

\* C1: whatever Reader::next hands back is a user value or the end of the
\* stream: never a version marker, never a struct the reader recognises as a
\* local symbol table (a non-null struct whose first annotation is SID 3).
C1_OnlyUserItemsReturned ==
    /\ returned.kind \in {"value", "none", "panic"}
    /\ ~(returned.kind = "value" /\ returned.ty = "Struct" /\ ~returned.null
          /\ Len(returned.annotations) >= 1 /\ returned.annotations[1] = 3)

\* One call consumed two system items in a row, the second one a symbol
\* table struct that changed the table, before it returned.
C1_Witness ==
    /\ system_items_seen >= 2
    /\ last_system_item.kind = "value"
    /\ symbol_table # table_before
    /\ returned = NoItem

\* C2: a struct with imports: $ion_symbol_table appends: the table it found is
\* a prefix of the table it leaves, wherever the imports field stands.
C2_ImportsAlwaysAppends ==
    (LstProcessed /\ HasAppendImports(last_system_item.fields))
        => /\ IsPrefix(table_before.symbols_by_id, symbol_table.symbols_by_id)
           /\ \A t \in DOMAIN table_before.ids_by_text :
                 /\ t \in DOMAIN symbol_table.ids_by_text
                 /\ symbol_table.ids_by_text[t] = table_before.ids_by_text[t]

\* C3: a struct without imports: $ion_symbol_table leaves the system symbols
\* followed by its own symbols and nothing else, also when it has no fields.
C3_NoImportsResets ==
    (LstProcessed /\ ~HasAppendImports(last_system_item.fields))
        => /\ IsPrefix(SYSTEM_SYMBOLS, symbol_table.symbols_by_id)
           /\ Range(symbol_table.symbols_by_id)
                 = SystemTexts \cup ListedTexts(last_system_item.fields)

\* C4: after a version marker the table is the system symbols, IDs 0..9,
\* and nothing else.
C4_IvmLeavesSystemSymbols ==
    (last_system_item = IVM)
        => /\ symbol_table.symbols_by_id = SYSTEM_SYMBOLS
           /\ DOMAIN symbol_table.ids_by_text = SystemTexts
           /\ \A i \in 1..Len(SYSTEM_SYMBOLS) :
                 symbol_table.ids_by_text[SYSTEM_SYMBOLS[i]] = i - 1

\* A version marker met in the middle of the stream, after user symbols were
\* defined.
C4_Witness ==
    /\ last_system_item = IVM
    /\ Len(table_before.symbols_by_id) > Len(SYSTEM_SYMBOLS)

\* The struct has the shape {symbols: [...]} or
\* {imports: $ion_symbol_table, symbols: [...]}.
OneSymbolsList(fields) ==
    \/ Len(fields) = 1 /\ fields[1].id = 7
    \/ Len(fields) = 2 /\ fields[1] = ImportsField /\ fields[2].id = 7

\* Every entry of the list is a string.
AllStrings(items) == \A k \in 1..Len(items) : items[k].ty = "String" /\ ~items[k].null

\* C5: the k-th string of the list gets the ID (length of the table when the
\* list is added) + k - 1 and the table grows by the length of the list,
\* repeated or known texts included.
C5_EachStringGetsNextId ==
    (/\ LstProcessed /\ OneSymbolsList(last_system_item.fields)
     /\ AllStrings(last_system_item.fields[Len(last_system_item.fields)].items))
        => LET fields == last_system_item.fields
               items  == fields[Len(fields)].items
               base   == IF Len(fields) = 2 THEN Len(table_before.symbols_by_id)
                         ELSE Len(SYSTEM_SYMBOLS)
           IN  /\ Len(symbol_table.symbols_by_id) = base + Len(items)
               /\ \A k \in 1..Len(items) :
                     symbol_table.symbols_by_id[base + k] = items[k].text

\* The strings of the list are new to the table the list is added to, and
\* no two of them are the same.
FreshStrings(items, known) ==
    \A k \in 1..Len(items) :
        items[k].ty = "String" =>
            /\ items[k].text \notin known
            /\ \A j \in 1..Len(items) :
                  (j # k /\ items[j].ty = "String") => items[j].text # items[k].text

\* C19: an entry of the symbols list that is not a string takes an ID: the
\* table grows by the length of the list and the string at place k of the
\* list gets the ID (length of the table when the list is added) + k - 1.
C19_NonStringTakesAnId ==
    (/\ LstProcessed /\ OneSymbolsList(last_system_item.fields)
     /\ LET fields == last_system_item.fields
            items  == fields[Len(fields)].items
        IN  /\ ~AllStrings(items)
            /\ FreshStrings(items, IF Len(fields) = 2
                                   THEN Range(table_before.symbols_by_id)
                                   ELSE SystemTexts))
        => LET fields == last_system_item.fields
               items  == fields[Len(fields)].items
               base   == IF Len(fields) = 2 THEN Len(table_before.symbols_by_id)
                         ELSE Len(SYSTEM_SYMBOLS)
           IN  /\ Len(symbol_table.symbols_by_id) = base + Len(items)
               /\ \A k \in 1..Len(items) :
                     items[k].ty = "String"
                        => symbol_table.symbols_by_id[base + k] = items[k].text

\* C20 (as stated): a struct is taken for a local symbol table exactly when
\* one of its annotations is SID 3, wherever it stands in the list.
C20_AnyAnnotationPosition ==
    (returned.kind = "value" /\ returned.ty = "Struct")
        => \A i \in 1..Len(returned.annotations) : returned.annotations[i] # 3

\* C20 (amended): a struct is taken for a local symbol table exactly when it
\* is not null and its FIRST annotation is SID 3: such a struct is never
\* handed to the caller, and every struct the reader consumes as a symbol
\* table is one.
C20_FirstAnnotationOnly ==
    /\ (returned.kind = "value" /\ returned.ty = "Struct" /\ ~returned.null)
          => ~(Len(returned.annotations) >= 1 /\ returned.annotations[1] = 3)
    /\ last_system_item.kind = "value"
          => /\ last_system_item.ty = "Struct" /\ ~last_system_item.null
             /\ Len(last_system_item.annotations) >= 1
             /\ last_system_item.annotations[1] = 3

\* A struct annotated <<4, 3>> was handed to the caller as a user value,
\* after a struct annotated <<3>> had been consumed as a symbol table.
C20_Witness ==
    /\ returned.kind = "value" /\ returned.ty = "Struct" /\ ~returned.null
    /\ returned.annotations = <<4, 3>>
    /\ last_system_item.kind = "value"
    /\ last_system_item.annotations = <<3>>

\* The texts intern is tried with: every text of the table, and some new ones.
InternTexts == DOMAIN symbol_table.ids_by_text \cup {"a", "b", "d"}

\* C23: intern of a text the table already holds returns the ID the text
\* has and leaves the table as it is, so a second intern(t) returns what the
\* first returned; no text ever sits in the table twice.
C23_InternIsIdempotent ==
    /\ \A text \in InternTexts :
          LET first  == intern(symbol_table, text)
              id     == internId(symbol_table, text)
              second == intern(first, text)
          IN  /\ second = first
              /\ internId(first, text) = id
              /\ first.symbols_by_id[id + 1] = text
              /\ text \in DOMAIN symbol_table.ids_by_text
                    => /\ first = symbol_table
                       /\ id = symbol_table.ids_by_text[text]
    /\ \A i, j \in 1..Len(symbol_table.symbols_by_id) :
          symbol_table.symbols_by_id[i] = symbol_table.symbols_by_id[j] => i = j

\* The reader interned the text "b" twice, from the list ["b", "b"], on top
\* of a table that held other user symbols.
C23_Witness ==
    /\ LstProcessed
    /\ \E i \in 1..Len(last_system_item.fields) :
          last_system_item.fields[i].items = <<Str("b"), Str("b")>>
    /\ "b" \in DOMAIN symbol_table.ids_by_text
    /\ "a" \in DOMAIN symbol_table.ids_by_text

\* ---------------------------------------------------------------------
\* Properties of the writer
\* ---------------------------------------------------------------------
\* The buffer below container i after the step.
ParentBufferAfter(i) == IF i = 1 THEN top_buffer' ELSE containers'[i - 1].encoding_buffer

\* The step closes the innermost container.
EndStep == last_op' = "end" /\ Depth > 0 /\ Len(containers') = Depth - 1

\* C6: closing a container with a body of L bytes adds to the parent the byte
\* type_code|L when L <= 13, else type_code|0x0E and L as a VarUInt, and then
\* the L body bytes: the declared length is the number of body bytes.
C6_EndWritesHeaderThenBody ==
    [][ EndStep =>
          LET c      == containers[Depth]
              body   == c.encoding_buffer
              L      == Len(body)
              parent == ParentBuffer(Depth)
              after  == ParentBufferAfter(Depth)
              start  == Len(parent)
          IN  /\ Len(after) > start
              /\ SubSeq(after, 1, start) = parent
              /\ IF L <= 13
                 THEN after = parent \o <<c.type_code + L>> \o body
                 ELSE LET declared == var_uint_read(after, start + 2)
                      IN  /\ after[start + 1] = c.type_code + 14
                          /\ declared.ok
                          /\ declared.value = U64(L)
                          /\ Len(after) = start + 1 + declared.size_in_bytes + L
                          /\ SubSeq(after, start + 2 + declared.size_in_bytes, Len(after))
                                = body
      ]_vars

\* A list with a body of 128 bytes or more has been closed into an empty
\* top-level buffer.
C6_Witness ==
    /\ last_op = "end" /\ Depth = 0
    /\ Len(top_buffer) > 128
    /\ top_buffer[1] = LIST_TYPE_CODE + 14
    /\ ToNat(var_uint_read(top_buffer, 2).value) >= 128

\* C7: once flush() has reset the arena the writer holds no pointer into it:
\* a buffer pointer that is set was allocated in the present arena.
C7_NoPointerIntoResetArena ==
    encoding_buffer_ptr.set => encoding_buffer_ptr.gen = arena_gen

\* C8: the buffer below an open container does not change while the
\* container stays open, nor when its callback fails.
C8_ParentUntouchedUntilClose ==
    [][ \A i \in 1..Depth :
          (\/ i <= Len(containers')
           \/ (i = Depth /\ last_op' = "callback_error"))
             => ParentBufferAfter(i) = ParentBuffer(i)
      ]_vars

\* A container that had been given a child was dropped by a failing callback
\* while its parent held a value.
C8_Witness ==
    /\ last_op = "callback_error" /\ Depth = 0
    /\ top_buffer # <<>>
    /\ values_written >= 3

\* C9: a struct field with a text name gives an Encoding error and leaves the
\* struct's buffer, the buffers around it and the output as they were.
C9_TextFieldNameRefused ==
    [][ last_op' = "field_text" =>
          /\ result' = "Encoding"
          /\ containers' = containers
          /\ top_buffer' = top_buffer
          /\ output' = output
      ]_vars

\* A text field name was refused by an open struct that already holds a
\* field.
C9_Witness ==
    /\ last_op = "field_text" /\ result = "Encoding"
    /\ Depth >= 1
    /\ containers[Depth].type_code = STRUCT_TYPE_CODE
    /\ containers[Depth].encoding_buffer # <<>>

\* C13: after a flush that returned Ok, reading the bytes of the sink gives
\* the values that were written, in the order they were written.
C13_SinkReadsBackAsWritten ==
    (last_op = "flush" /\ result = "Ok")
        => LET read == ReadAll(output)
           IN  read.ok /\ read.values = written

\* C29: a struct body copied to the parent buffer on close is a sequence of
\* whole (field ID, value) pairs; a field whose value could not be written
\* leaves the struct's buffer as it was, without the field ID.
C29_StructBodyIsPairs ==
    [][ /\ (last_op' = "field_sid" /\ result' # "Ok")
            => containers'[Depth].encoding_buffer = containers[Depth].encoding_buffer
        /\ (EndStep /\ containers[Depth].type_code = STRUCT_TYPE_CODE)
            => LET body == containers[Depth].encoding_buffer
               IN  DecodeValues(body, 1, Len(body), TRUE).ok
      ]_vars

\* C28: whatever the writes and flushes, after a flush the sink holds the
\* version marker once and then the bytes of each value written, once each
\* and in the order written: nothing is sent twice, nothing is lost.
C28_EachValueSentOnce ==
    (last_op = "flush" /\ result = "Ok") => output = due_output

\* ---------------------------------------------------------------------
\* Properties of the blocking adapter
\* ---------------------------------------------------------------------
\* The offset just past item k.
ItemEnd(k) == ItemStart(k) + stream_items[k]

\* The bytes the parser held when the last call of next() began.
HeldBefore == reader_bytes - (source_before - source)

\* The parser held a part of item k when the call began, and the rest of the
\* item was in the source.
RestInSource(k) ==
    /\ ItemStart(k) < HeldBefore
    /\ HeldBefore < ItemEnd(k)
    /\ ItemEnd(k) <= HeldBefore + source_before

\* C10: when the parser says Incomplete and the source holds the rest of the
\* item, next() returns the item and not the Incomplete error.
C10_IncompleteIsRecovered ==
    (first_parse = "Incomplete" /\ \E k \in 1..Len(stream_items) : RestInSource(k))
        => next_result = "Item"

\* C27: when the parser says Incomplete and the source has no bytes left,
\* next() marks the stream complete and runs the parser a second time, once;
\* what next() returns is what that second run returned.
C27_RetriesOnceAtEndOfInput ==
    (first_parse = "Incomplete" /\ source_before = 0)
        => /\ reader_complete
           /\ parse_calls = 2
           /\ next_result = Parse(reader_bytes, offset).res

\* ---------------------------------------------------------------------
\* Properties of the element reader
\* ---------------------------------------------------------------------
\* The ids of the elements below e.
RECURSIVE DescendantIds(_)
DescendantIds(e) ==
    UNION { {e.children[i].id} \cup DescendantIds(e.children[i]) :
              i \in 1..Len(e.children) }

\* The element of the tree e that has the given id (NoElement if none).
RECURSIVE FindElem(_, _)
FindElem(e, id) ==
    IF e.id = id THEN e
    ELSE LET found == { FindElem(e.children[i], id) : i \in 1..Len(e.children) }
                         \ {NoElement}
         IN  IF found = {} THEN NoElement ELSE CHOOSE f \in found : TRUE

\* The id of the element that follows the element `id` in its parent: 0 when
\* it is the last child or the root, -1 when e does not hold it.
RECURSIVE Follower(_, _)
Follower(e, id) ==
    IF e.id = id THEN 0
    ELSE LET c == e.children
             here == { i \in 1..Len(c) : c[i].id = id }
             below == { Follower(c[i], id) : i \in 1..Len(c) } \ {-1}
         IN  IF here # {}
             THEN LET i == CHOOSE j \in here : TRUE
                  IN  IF i < Len(c) THEN c[i + 1].id ELSE 0
             ELSE IF below = {} THEN -1 ELSE CHOOSE f \in below : TRUE

\* C11: after step_out() the next call of next() yields the value that
\* follows the container left in its parent, or nothing when the container
\* was the last child or the top-level element; and next() never again
\* yields an element from inside a container that was left.
C11_StepOutSkipsTheRest ==
    [][ /\ (element_op = "step_out" /\ element_result = "Ok" /\ element_op' = "next")
            => current_value'.id = Follower(input, exited[Len(exited)])
        /\ element_op' = "next"
            => \A i \in 1..Len(exited') :
                  current_value'.id \notin DescendantIds(FindElem(input, exited'[i]))
      ]_vars

\* A container was left with children unread, and next() is on the element
\* that follows the container.
C11_Witness ==
    /\ element_op = "next" /\ element_result = "Value"
    /\ exited # <<>> /\ skipped > 0
    /\ current_value.id = Follower(input, exited[Len(exited)])

\* C12: step_out() at depth 0 returns IllegalOperation and leaves the reader
\* at depth 0.
C12_StepOutAtTopLevelRefused ==
    (element_op = "step_out" /\ depth_before = 0)
        => (element_result = "IllegalOperation" /\ Len(parents) = 0)

\* step_out() was refused at the top level after a container had been
\* entered and left.
C12_Witness ==
    /\ element_op = "step_out" /\ depth_before = 0
    /\ element_result = "IllegalOperation"
    /\ exited # <<>>


\* C24: depth() is the number of step_in() calls that succeeded minus the
\* number of step_out() calls that succeeded, 0 for a new reader; a step_in()
\* or step_out() that returns an error leaves it as it was.
C24_DepthCountsStepIns ==
    element_result # "Panic"
        => LET step_ins  == Len(entered) + Len(exited)
               step_outs == Len(exited)
           IN  /\ Len(parents) = step_ins - step_outs
               /\ element_op = "new" => Len(parents) = 0
               /\ (element_op \in {"step_in", "step_out"} /\ element_result # "Ok")
                     => Len(parents) = depth_before

\* Inside a container, after another container was entered and left, a
\* step_in() was refused.
C24_Witness ==
    /\ element_op = "step_in" /\ element_result = "IllegalOperation"
    /\ Len(parents) = 1 /\ depth_before = 1
    /\ exited # <<>>

\* C25: next() called on a container that was not stepped into skips the
\* container: it yields the container's following sibling, or nothing, at
\* the depth the call began at, and no element from inside the container.
C25_NextSkipsContainer ==
    [][ (/\ element_op' = "next"
         /\ current_value # NoElement
         /\ is_container(current_value.ty))
            => /\ current_value'.id = Follower(input, current_value.id)
               /\ Len(parents') = Len(parents)
               /\ current_value'.id \notin DescendantIds(current_value)
      ]_vars

\* next() went from a container with children, inside another container,
\* straight to the value after it.
C25_Witness ==
    /\ element_op = "next" /\ element_result = "Value"
    /\ Len(parents) >= 1
    /\ \E i \in 1..Len(FindElem(input, entered[Len(entered)]).children) :
          LET siblings == FindElem(input, entered[Len(entered)]).children
          IN  /\ i > 1
              /\ siblings[i] = current_value
              /\ siblings[i - 1].children # <<>>
              /\ siblings[i - 1].id \notin Range(exited)

\* C22: asking for the current value as a type other than its own returns
\* an IllegalOperation error.
C22_WrongTypeIsIllegalOperation ==
    (/\ element_op = "read"
     /\ current_value # NoElement
     /\ expected_type # current_value.ty
     /\ expected_type # read_value(ElementReader).variant)
        => element_result = "IllegalOperation"

\* ---------------------------------------------------------------------
\* Properties of the VarUInt codecs
\* ---------------------------------------------------------------------
\* C14: reading the bytes VarUInt::write_u64 wrote for v gives v, and a size
\* that is the number of bytes written.
C14_VarUInt10RoundTrips ==
    (v1_0_sink # <<>> /\ v1_0_source = v1_0_sink)
        => /\ v1_0_read.ok
           /\ v1_0_read.value = var_uint_value
           /\ v1_0_read.size_in_bytes = Len(v1_0_sink)
           /\ v1_0_size = Len(v1_0_sink)

\* u64::MAX was written in ten bytes and read back.
C14_Witness ==
    /\ var_uint_value = U64_MAX
    /\ Len(v1_0_sink) = 10 /\ v1_0_source = v1_0_sink
    /\ v1_0_read.ok /\ v1_0_read.value = U64_MAX

\* C15: decoding the bytes encode_var_uint wrote for v, whatever follows
\* them, gives v and a size that is the number of bytes written.
C15_VarUInt11RoundTrips ==
    v1_1_source # <<>>
        => /\ v1_1_decoded.ok
           /\ v1_1_decoded.value = var_uint_value
           /\ v1_1_decoded.size = Len(v1_1_sink)
           /\ v1_1_size = Len(v1_1_sink)

\* A value of 57 bits or more was encoded in nine or ten bytes and decoded
\* from a stream that goes on after it.
C15_Witness ==
    /\ v1_1_size >= 9
    /\ Len(v1_1_source) > Len(v1_1_sink)
    /\ v1_1_decoded.ok /\ v1_1_decoded.value = var_uint_value

\* C16: the two encoders return the same size for the same value.
C16_SameEncodedSize ==
    (v1_0_sink # <<>> /\ v1_1_sink # <<>>)
        => (v1_0_size = v1_1_size /\ Len(v1_0_sink) = Len(v1_1_sink))

\* Both encoders wrote a value of exactly 56 bits in eight bytes.
C16_Witness ==
    /\ var_uint_value = LowOnes(56)
    /\ v1_0_size = 8 /\ v1_1_size = 8

\* The number of bytes VarUInt::read consumes from `data`: up to the first
\* byte with the highest bit set (0 if there is none).
Consumed(data) ==
    LET ends == { i \in 1..Len(data) : data[i] >= HIGHEST_BIT_VALUE }
    IN  IF ends = {} THEN 0 ELSE CHOOSE i \in ends : \A j \in ends : i <= j

\* Bit i (from 1) of the number the n seven-bit groups of `data` spell.
GroupBit(data, n, i) ==
    LET group == n - ((i - 1) \div 7)
    IN  IF group < 1 THEN 0
        ELSE ((data[group] % 128) \div (2 ^ ((i - 1) % 7))) % 2

\* C17: VarUInt::read fails when it consumes more than 10 bytes, and when it
\* consumes 10 bytes and the low seven bits of the first exceed 1; a value it
\* accepts is the number encoded, which then fits 64 bits.
C17_OverflowIsRejected ==
    v1_0_source # <<>>
        => LET n == Consumed(v1_0_source)
           IN  /\ n > 10 => ~v1_0_read.ok
               /\ (n = 10 /\ v1_0_source[1] % 128 > 1) => ~v1_0_read.ok
               /\ v1_0_read.ok =>
                    /\ \A i \in 1..(7 * n) :
                          GroupBit(v1_0_source, n, i) =
                             IF i <= BITS_PER_U64 THEN v1_0_read.value[i] ELSE 0
                    /\ \A i \in BitIndex : i > 7 * n => v1_0_read.value[i] = 0

\* A ten-byte encoding whose first byte is 2 was refused.
C17_Witness ==
    /\ Len(v1_0_source) = 10 /\ v1_0_source[1] = 2
    /\ Consumed(v1_0_source) = 10
    /\ ~v1_0_read.ok

\* C26: VarUInt::read returns an error for the number 0 encoded in the
\* maximum size, 10 bytes.
C26_OverlongZeroRejected ==
    (Len(v1_0_source) >= MAX_ENCODED_SIZE_IN_BYTES
     /\ SubSeq(v1_0_source, 1, MAX_ENCODED_SIZE_IN_BYTES)
            = OverlongZero(MAX_ENCODED_SIZE_IN_BYTES))
        => ~v1_0_read.ok

\* C18: encode_var_uint writes 127 as FE, 128 as FD 03 and u64::MAX as
\* FF FD FF FF FF FF FF FF FF 03.
C18_EncodedBytes ==
    v1_1_sink # <<>>
        => /\ var_uint_value = U64(127) => v1_1_sink = <<254>>
           /\ var_uint_value = U64(128) => v1_1_sink = <<253, 3>>
           /\ var_uint_value = U64_MAX
                => v1_1_sink = <<255, 253, 255, 255, 255, 255, 255, 255, 255, 3>>

\* ---------------------------------------------------------------------
\* Properties of the version marker handling
\* ---------------------------------------------------------------------
IsMarker(bytes) == Len(bytes) = 4 /\ bytes[1] = IVM_START /\ bytes[4] = IVM_END

SupportedVersions == { <<1, 0>>, <<1, 1>> }

\* C21: a reader that meets the marker E0 maj min EA accepts it when
\* (maj, min) is (1, 0) or (1, 1) and returns a Decoding error for every
\* other version.
C21_BothVersionsAccepted ==
    IsMarker(header)
        => /\ build_result # NotRun
                => IF <<header[2], header[3]>> \in SupportedVersions
                   THEN build_result = "BinaryReader"
                   ELSE build_result = "DecodingError"
           /\ raw_1_1_result # NotRun
                => IF <<header[2], header[3]>> \in SupportedVersions
                   THEN raw_1_1_result = "VersionMarker"
                   ELSE raw_1_1_result = "DecodingError"

\* ---------------------------------------------------------------------
\* Properties of the application writer
\* ---------------------------------------------------------------------
\* What a step added to the sink.
AddedToSink == SubSeq(app_output', Len(app_output) + 1, Len(app_output'))

====
